---- MODULE Spec2Model ----
(***************************************************************************)
(* A state-machine model of the wew binding layer:                         *)
(*   - the Runtime life cycle of src/src/runtime.rs (construction, the     *)
(*     spawned run-loop thread, teardown, the process-wide flag),          *)
(*   - the WebView life cycle and trampolines of src/src/webview.rs,       *)
(*   - the cursor cache of WebView::mouse,                                 *)
(*   - the single-slot Park/UnPark future of src/src/sync.rs,              *)
(*   - the PageWrapper construction of src/src/wrapper.rs.                 *)
(* The native engine (the C++ shim reached through the sys module) is not   *)
(* among the Rust sources; where its behaviour matters it is modelled from *)
(* the written specification.                                              *)
(***************************************************************************)
EXTENDS Integers, Sequences, FiniteSets, TLC

\* ------------------------------------------------------------------ bounds
NThreads == 2          \* host threads that call the binding concurrently
MaxRuntimes == 2       \* Runtime constructions that get past the flag check
MaxWebViews == 2       \* WebViews created over a run

MaxActions == 3        \* WebView::mouse calls recorded over a run
MaxPages == 2          \* PageWrappers created over a run
MaxArgs == 2           \* command-line arguments of the process
MaxPolls == 2          \* poll calls made over a run
MaxCallbacks == 3      \* trampoline invocations the engine makes over a run
MaxCalls == 3          \* WebView method calls begun over a run

Threads == 1..NThreads
PageIds == 1..MaxPages
RuntimeIds == 1..MaxRuntimes
WebViewIds == 1..MaxWebViews

VARIABLES
    \* ---- src/src/runtime.rs
    RUNTIME_RUNNING,   \* static RUNTIME_RUNNING: AtomicBool
    pc,                \* per host thread: the statement it is about to execute
    cur,               \* per host thread: the Runtime / WebView it is working on
    attr,              \* per host thread: attr.multi_threaded_message_loop of the
                       \* Runtime::new call it is in (FALSE outside one)
    lastDone,          \* history: the latest completed Runtime call: what Runtime::new
                       \* returned, or "drop"
    rt,                \* per Runtime: native instance, boxed handler, loop thread
    quit_requested,    \* native: quit_message_loop() has been called
    \* ---- src/src/webview.rs
    wv,                \* per WebView: native handle, boxed handler, callback in flight
    mouse_event,       \* per WebView: the cached cursor position (Mutex<cef_mouse_event_t>)
    dispatched,        \* the latest native mouse event handed to the engine
    history,           \* history: the WebView::mouse calls made so far
    \* ---- src/src/sync.rs
    output,            \* Arc<Mutex<Option<T>>>: the single slot
    runing,            \* Arc<AtomicBool>
    waker,             \* Arc<AtomicWaker>: a waker is registered
    notified,          \* the waiting task has been woken and not yet polled again
    ppc,               \* the waiter: where Park::poll stands
    resolved,          \* the waiter: what Park::poll has resolved to
    upc,               \* the producer: where UnPark stands
    deposited,         \* history: the value the producer deposited
    \* ---- src/src/wrapper.rs
    page,              \* per PageWrapper: native handle, context address, observer
    \* ---- src/src/sync.rs (async_create_webview)
    delivering,        \* the state AsyncWebViewHandler::on_state_change is handling
    firstTerminal,     \* history: the first Loaded / LoadError delivered
    created,           \* what async_create_webview returned
    \* ---- src/src/runtime.rs (RuntimeAttributesBuilder)
    platform,          \* cfg!(target_os): the platform the binding was built for
    built,             \* per host thread: the RuntimeAttributes it holds from build()
    \* ---- src/src/lib.rs, src/webview/src/lib.rs (subprocess entry)
    args,              \* std::env::args() of the process
    tokio,             \* a tokio runtime is active on the thread running main
    variant,           \* which execute_subprocess the host's main calls
    spc,               \* where main stands
    marshalled,        \* the arguments have been marshalled for the native call
    nativeResult,      \* how the native subprocess executor ended
    ret,               \* how execute_subprocess ended
    \* ---- src/src/runtime.rs (poll, block_run, quit)
    kind,              \* the loop strategy the Runtime was built with ("none": no Runtime)
    driven,            \* history: the host has called block_run or poll since construction
    initialized,       \* on_context_initialized has been delivered to the host handler
    polls,             \* history: the number of poll calls made
    \* ---- src/src/lib.rs (Args), src/src/wrapper.rs (get_args)
    marshaller,        \* which code builds the (count, pointer-array) pair
    entry,             \* the native entry point the pair is passed to
    mpc,               \* where the marshalling stands
    owned,             \* the argument strings (by position) whose allocation is alive
    argv,              \* the pointer array: for each slot, the string it points to
    passed,            \* history: what the native entry point was handed
    \* ---- src/src/runtime.rs (Runtime::new, execute step)
    executes,          \* history, per Runtime: the sys::execute_runtime calls made inline and on a spawned thread
    \* ---- src/src/runtime.rs, webview.rs, sync.rs (handler dispatch)
    rtPath,            \* how the Runtime was created: create_runtime or async_create_runtime
    wvPath,            \* how the WebView was created: create_webview or async_create_webview
    rtStrategy,        \* the loop strategy type of the Runtime's attributes
    wvKind,            \* the WebView type of the Runtime: windowless or native window
    rtHandler,         \* the MixRuntimeHnadler registered as the Runtime's callback context
    wvHandler,         \* the MixWebviewHnadler registered as the WebView's callback context
    nativeCb,          \* the latest native callback the engine made
    hostCb,            \* the host handler method that callback reached ("none": dropped)
    \* ---- src/src/webview.rs (trampolines), src/src/wrapper.rs (ObserverWrapper)
    binding,           \* which trampolines are registered: webview.rs or wrapper.rs
    fired,             \* history: the trampoline invocations the engine has made, in order
    observed,          \* history: the calls the host handler has received, in order
    chan,              \* the unbounded channel of ObserverWrapper (tx -> rx)
    \* ---- src/src/sync.rs (async_create_runtime, async_create_webview)
    acall,             \* which async constructor the task is inside ("none": neither)
    \* ---- src/src/sync.rs (AsyncRuntimeHandler, AsyncWebViewHandler)
    hostPlain,         \* history: the calls a host handler registered by create_* has received
    asyncTrace,        \* history: what the Async*Handler wrappers have done, in order
    pendingRt,         \* AsyncRuntimeHandler.unpark still holds its UnPark
    pendingWv,         \* AsyncWebViewHandler.unpark still holds its UnPark
    \* ---- src/src/webview.rs (the two mutexes of WebView)
    lpc,               \* per host thread: where its WebView method call stands
    lop,               \* per host thread: the method it is in and, for mouse, the action
    lev,               \* per host thread: *event as its mouse call wrote or read it
    eventLock,         \* the thread holding WebView.mouse_event (0: unlocked)
    rawLock,           \* the thread holding WebView.raw (0: unlocked)
    calls,             \* history: the number of WebView method calls begun
    \* ---- src/webview/src/lib.rs (Webview::new, wait_exit), src/src/wrapper.rs (WebviewWrapper)
    wnew,              \* where the task inside Webview::new stands ("idle": not called)
    appResult,         \* what Webview::new has resolved to
    sender,            \* the oneshot Sender<()>: local, boxed behind ctx, sent, or dropped
    app,               \* the handle create_webview returned
    runState,          \* the thread spawned by Webview::new
    notifyCalls,       \* the number of notify_waiters() calls made on Webview.notify
    wexit,             \* per host thread: where its wait_exit() call stands
    snapshot,          \* per host thread: the notify_waiters count its Notified was created at
    held,              \* which of the task and the spawned thread hold a clone of the Arc<Webview>
    hostArcs,          \* the host threads that hold a clone of the Arc<Webview>
    waits              \* per host thread: the wait_exit calls it has made

rtVars == <<RUNTIME_RUNNING, pc, cur, attr, lastDone, rt, quit_requested>>
wvVars == <<wv>>
mouseVars == <<mouse_event, dispatched, history>>
parkVars == <<output, runing, waker, notified, ppc, resolved, upc, deposited>>
pageVars == <<page>>
asyncVars == <<delivering, firstTerminal, created>>
stratVars == <<platform, built>>
subVars == <<args, tokio, variant, spc, marshalled, nativeResult, ret>>
loopVars == <<kind, driven, initialized, polls>>
argvVars == <<marshaller, entry, mpc, owned, argv, passed>>
execVars == <<executes>>
dispVars == <<rtPath, wvPath, rtStrategy, wvKind, rtHandler, wvHandler, nativeCb, hostCb>>
orderVars == <<binding, fired, observed, chan>>
acVars == <<acall>>
twinVars == <<hostPlain, asyncTrace, pendingRt, pendingWv>>
lockVars == <<lpc, lop, lev, eventLock, rawLock, calls>>
appVars == <<wnew, appResult, sender, app, runState, notifyCalls, wexit, snapshot, held, hostArcs, waits>>
vars == <<rtVars, wvVars, mouseVars, parkVars, pageVars, asyncVars, stratVars, subVars, loopVars, argvVars, execVars, dispVars, orderVars, acVars, twinVars, lockVars, appVars>>

\* What the actions of one part leave alone.
notRt == <<wvVars, mouseVars, parkVars, pageVars, asyncVars, stratVars, subVars, loopVars, argvVars, execVars, dispVars, orderVars, acVars, twinVars, lockVars, appVars>>
notSub == <<rtVars, wvVars, mouseVars, parkVars, pageVars, asyncVars, stratVars, loopVars, argvVars, execVars, dispVars, orderVars, acVars, twinVars, lockVars, appVars>>
notRtLoop == <<wvVars, mouseVars, parkVars, pageVars, asyncVars, stratVars, subVars, argvVars, execVars, dispVars, orderVars, acVars, twinVars, lockVars, appVars>>
notRtAsyncLoop == <<wvVars, mouseVars, parkVars, pageVars, stratVars, subVars, argvVars, execVars, dispVars, orderVars, acVars, twinVars, lockVars, appVars>>
notArgv == <<rtVars, wvVars, mouseVars, parkVars, pageVars, asyncVars, stratVars, subVars, loopVars, execVars, dispVars, orderVars, acVars, twinVars, lockVars, appVars>>
notRtExec == <<wvVars, mouseVars, parkVars, pageVars, asyncVars, stratVars, subVars, loopVars, argvVars, dispVars, orderVars, acVars, twinVars, lockVars, appVars>>
notDisp == <<rtVars, wvVars, mouseVars, parkVars, pageVars, asyncVars, stratVars, subVars, loopVars, argvVars, execVars, orderVars, acVars, twinVars, lockVars, appVars>>
notOrder == <<rtVars, wvVars, mouseVars, parkVars, pageVars, asyncVars, stratVars, subVars, loopVars, argvVars, execVars, dispVars, acVars, twinVars, lockVars, appVars>>
notAc == <<rtVars, wvVars, mouseVars, parkVars, pageVars, asyncVars, stratVars, subVars, loopVars, argvVars, execVars, dispVars, orderVars, twinVars, lockVars, appVars>>
notTwin == <<rtVars, wvVars, mouseVars, parkVars, pageVars, asyncVars, stratVars, subVars, loopVars, argvVars, execVars, dispVars, orderVars, acVars, lockVars, appVars>>
notLock == <<rtVars, wvVars, mouseVars, parkVars, pageVars, asyncVars, stratVars, subVars, loopVars, argvVars, execVars, dispVars, orderVars, acVars, twinVars, appVars>>
notMouseLock == <<rtVars, wvVars, parkVars, pageVars, asyncVars, stratVars, subVars, loopVars, argvVars, execVars, dispVars, orderVars, acVars, twinVars, appVars>>
notWvMouseLock == <<rtVars, parkVars, pageVars, asyncVars, stratVars, subVars, loopVars, argvVars, execVars, dispVars, orderVars, acVars, twinVars, appVars>>
notApp == <<rtVars, wvVars, mouseVars, parkVars, pageVars, asyncVars, stratVars, subVars, loopVars, argvVars, execVars, dispVars, orderVars, acVars, twinVars, lockVars>>
notStrat == <<rtVars, wvVars, mouseVars, parkVars, pageVars, asyncVars, subVars, loopVars, argvVars, execVars, dispVars, orderVars, acVars, twinVars, lockVars, appVars>>
notWv == <<mouseVars, parkVars, pageVars, asyncVars, stratVars, subVars, loopVars, argvVars, execVars, dispVars, orderVars, acVars, twinVars, lockVars, appVars>>
notMouse == <<rtVars, wvVars, parkVars, pageVars, asyncVars, stratVars, subVars, loopVars, argvVars, execVars, dispVars, orderVars, acVars, twinVars, lockVars, appVars>>
notPark == <<rtVars, wvVars, mouseVars, pageVars, asyncVars, stratVars, subVars, loopVars, argvVars, execVars, dispVars, orderVars, acVars, twinVars, lockVars, appVars>>
notPage == <<rtVars, wvVars, mouseVars, parkVars, asyncVars, stratVars, subVars, loopVars, argvVars, execVars, dispVars, orderVars, acVars, twinVars, lockVars, appVars>>
notWvMouse == <<rtVars, parkVars, pageVars, asyncVars, stratVars, subVars, loopVars, argvVars, execVars, dispVars, orderVars, acVars, twinVars, lockVars, appVars>>
notParkAsync == <<rtVars, wvVars, mouseVars, pageVars, stratVars, subVars, loopVars, argvVars, execVars, dispVars, orderVars, acVars, twinVars, lockVars, appVars>>

\* ----------------------------------------------------------------- values
NoRuntime ==
    [state |-> "none", multi |-> FALSE, raw |-> "null", handler |-> "none",
     loop |-> "none", quit |-> FALSE]

NoWebView ==
    [state |-> "none", owner |-> 0, raw |-> "null", handler |-> "none",
     cb |-> "none", raced |-> FALSE, usedAfterRuntimeClose |-> FALSE]

\* A Runtime that Runtime::new has returned and whose drop has not completed.
Live(r) == rt[r].state \in {"live", "dropping"}

\* The first Runtime slot not yet used (0 when the bound is reached).
FreeRuntime ==
    IF \E r \in RuntimeIds : rt[r].state = "none"
    THEN CHOOSE r \in RuntimeIds :
            rt[r].state = "none" /\ \A q \in RuntimeIds : q < r => rt[q].state # "none"
    ELSE 0

\* Runtime slots not yet used nor spoken for by a call that is past the flag
\* check (the bound MaxRuntimes stops further calls from getting past it).
SlotsLeft ==
    Cardinality({r \in RuntimeIds : rt[r].state = "none"})
        - Cardinality({t \in Threads : pc[t] \in {"new_store", "new_create"}})

FreeWebView ==
    IF \E w \in WebViewIds : wv[w].state = "none"
    THEN CHOOSE w \in WebViewIds :
            wv[w].state = "none" /\ \A q \in WebViewIds : q < w => wv[q].state # "none"
    ELSE 0

\* ------------------------------------------- RuntimeAttributesBuilder::build
Platforms == {"macos", "windows", "linux"}

\* The type-state of the builder: which message loop the host asks for.
Strategies == {"MainThreadRuntime", "MultiThreadRuntime", "MessagePumpRuntime"}

\* RuntimeAttributesBuilder<R, W>::build for R = MultiThreadRuntime,
\* MainThreadRuntime, MessagePumpRuntime: the two loop fields of the attributes.
BuildAttributes(strategy) ==
    [strategy |-> strategy,
     multi_threaded_message_loop |-> (strategy = "MultiThreadRuntime"),
     external_message_pump |-> (strategy = "MessagePumpRuntime")]

\* A host thread that has built no attributes yet.
NoAttributes ==
    [strategy |-> "none", multi_threaded_message_loop |-> FALSE,
     external_message_pump |-> FALSE]

\* A host thread builds RuntimeAttributes for the strategy it wants.
Build(t, strategy) ==
    /\ pc[t] = "idle"
    /\ strategy \in Strategies
    /\ built[t] # BuildAttributes(strategy)
    /\ built' = [built EXCEPT ![t] = BuildAttributes(strategy)]
    /\ UNCHANGED <<platform, notStrat>>

\* ------------------------------------------------------------ Runtime::new
\* A host thread calls RuntimeAttributes::create_runtime -> Runtime::new.
NewCall(t, multi) ==
    /\ pc[t] = "idle"
    /\ pc' = [pc EXCEPT ![t] = "new_load"]
    /\ attr' = [attr EXCEPT ![t] = multi]
    /\ UNCHANGED <<RUNTIME_RUNNING, cur, lastDone, rt, quit_requested, notRt>>

\* RuntimeAttributes::create_runtime(&self, handler) on the attributes built:
\* Runtime::new copies attr.multi_threaded_message_loop and
\* attr.external_message_pump into the native settings as they are.
CreateRuntime(t) ==
    /\ built[t] # NoAttributes
    /\ NewCall(t, built[t].multi_threaded_message_loop)

\* Mutant of NewLoad: a rejected call clears the flag on its way out.
NewLoad_RejectClearsFlag(t) ==
    /\ pc[t] = "new_load"
    /\ RUNTIME_RUNNING \/ SlotsLeft > 0
    /\ IF RUNTIME_RUNNING
       THEN /\ pc' = [pc EXCEPT ![t] = "idle"]
            /\ attr' = [attr EXCEPT ![t] = FALSE]
            /\ lastDone' = "RuntimeAlreadyExists"
       ELSE /\ pc' = [pc EXCEPT ![t] = "new_store"]
            /\ UNCHANGED <<attr, lastDone>>
    /\ RUNTIME_RUNNING' = FALSE
    /\ UNCHANGED <<cur, rt, quit_requested, notRt>>

\* if RUNTIME_RUNNING.load(Relaxed) { return Err(RuntimeAlreadyExists) }
NewLoad(t) ==
    /\ pc[t] = "new_load"
    /\ RUNTIME_RUNNING \/ SlotsLeft > 0
    /\ IF RUNTIME_RUNNING
       THEN /\ pc' = [pc EXCEPT ![t] = "idle"]
            /\ attr' = [attr EXCEPT ![t] = FALSE]
            /\ lastDone' = "RuntimeAlreadyExists"
       ELSE /\ pc' = [pc EXCEPT ![t] = "new_store"]
            /\ UNCHANGED <<attr, lastDone>>
    /\ UNCHANGED <<RUNTIME_RUNNING, cur, rt, quit_requested, notRt>>

\* else { RUNTIME_RUNNING.store(true, Relaxed) }
NewStore(t) ==
    /\ pc[t] = "new_store"
    /\ RUNTIME_RUNNING' = TRUE
    /\ pc' = [pc EXCEPT ![t] = "new_create"]
    /\ UNCHANGED <<cur, attr, lastDone, rt, quit_requested, notRt>>

\* Box::into_raw(handler); sys::create_runtime(..); a null result returns
\* Err(FailedToCreateRuntime) with the flag left as it is.
NewCreate(t, ptr) ==
    /\ pc[t] = "new_create"
    /\ IF ptr = "null"
       THEN /\ pc' = [pc EXCEPT ![t] = "idle"]
            /\ attr' = [attr EXCEPT ![t] = FALSE]
            /\ lastDone' = "FailedToCreateRuntime"
            /\ UNCHANGED <<cur, rt>>
       ELSE /\ FreeRuntime # 0
            /\ rt' = [rt EXCEPT ![FreeRuntime] =
                        [state |-> "constructing", multi |-> attr[t], raw |-> "open",
                         handler |-> "boxed", loop |-> "none", quit |-> FALSE]]
            /\ cur' = [cur EXCEPT ![t] = FreeRuntime]
            /\ pc' = [pc EXCEPT ![t] = "new_execute"]
            /\ UNCHANGED <<attr, lastDone>>
    /\ UNCHANGED <<RUNTIME_RUNNING, quit_requested, notRt>>

\* Mutant of NewExecute: the execute call is handed to a spawned thread
\* whatever the loop strategy.
NewExecute_AlwaysSpawns(t) ==
    /\ pc[t] = "new_execute"
    /\ rt' = [rt EXCEPT ![cur[t]].state = "live", ![cur[t]].loop = "spawned"]
    /\ pc' = [pc EXCEPT ![t] = "idle"]
    /\ attr' = [attr EXCEPT ![t] = FALSE]
    /\ lastDone' = "Ok"
    /\ cur' = [cur EXCEPT ![t] = 0]
    /\ UNCHANGED <<RUNTIME_RUNNING, quit_requested, executes, notRtExec>>

\* if attr.multi_threaded_message_loop { thread::spawn(execute_runtime) }
\* else { execute_runtime(..) } ; Ok(Self { .. })
NewExecute(t) ==
    /\ pc[t] = "new_execute"
    /\ rt' = [rt EXCEPT ![cur[t]].state = "live",
                        ![cur[t]].loop = IF rt[cur[t]].multi THEN "spawned" ELSE "none"]
    /\ pc' = [pc EXCEPT ![t] = "idle"]
    /\ attr' = [attr EXCEPT ![t] = FALSE]
    /\ lastDone' = "Ok"
    /\ cur' = [cur EXCEPT ![t] = 0]
    /\ executes' = [executes EXCEPT ![cur[t]].inline =
                                       IF rt[cur[t]].multi THEN @ ELSE @ + 1]
    /\ UNCHANGED <<RUNTIME_RUNNING, quit_requested, notRtExec>>

\* ------------------------------------------------- the spawned loop thread
\* The thread spawned by Runtime::new enters sys::execute_runtime(raw).
LoopEnter(r) ==
    /\ rt[r].loop = "spawned"
    /\ rt' = [rt EXCEPT ![r].loop = "running"]
    /\ executes' = [executes EXCEPT ![r].spawned = @ + 1]
    /\ UNCHANGED <<RUNTIME_RUNNING, pc, cur, attr, lastDone, quit_requested, notRtExec>>

\* The blocking native run call returns only after a quit has been issued.
LoopExit(r) ==
    /\ rt[r].loop = "running"
    /\ quit_requested
    /\ rt' = [rt EXCEPT ![r].loop = "exited"]
    /\ UNCHANGED <<RUNTIME_RUNNING, pc, cur, attr, lastDone, quit_requested, notRt>>

\* ------------------------------------------------------- Drop for Runtime
\* Mutant of DropQuit: the drop issues quit_message_loop() whatever the loop
\* strategy of the Runtime.
DropQuit_AlwaysQuits(t, r) ==
    /\ pc[t] = "idle"
    /\ rt[r].state = "live"
    /\ rt' = [rt EXCEPT ![r].state = "dropping", ![r].quit = TRUE]
    /\ quit_requested' = TRUE
    /\ cur' = [cur EXCEPT ![t] = r]
    /\ pc' = [pc EXCEPT ![t] = "drop_close"]
    /\ UNCHANGED <<RUNTIME_RUNNING, attr, lastDone, notRt>>

\* if self.multi_threaded_message_loop { sys::quit_message_loop() }
DropQuit(t, r) ==
    /\ pc[t] = "idle"
    /\ rt[r].state = "live"
    /\ rt' = [rt EXCEPT ![r].state = "dropping", ![r].quit = rt[r].multi]
    /\ quit_requested' = (quit_requested \/ rt[r].multi)
    /\ cur' = [cur EXCEPT ![t] = r]
    /\ pc' = [pc EXCEPT ![t] = "drop_close"]
    /\ UNCHANGED <<RUNTIME_RUNNING, attr, lastDone, notRt>>

\* sys::close_runtime(self.raw.lock().as_ptr())
DropClose(t) ==
    /\ pc[t] = "drop_close"
    /\ rt' = [rt EXCEPT ![cur[t]].raw = "closed"]
    /\ pc' = [pc EXCEPT ![t] = "drop_free"]
    /\ UNCHANGED <<RUNTIME_RUNNING, cur, attr, lastDone, quit_requested, notRt>>

\* drop(Box::from_raw(self.handler.as_ptr()))
DropFree(t) ==
    /\ pc[t] = "drop_free"
    /\ rt' = [rt EXCEPT ![cur[t]].handler = "freed"]
    /\ pc' = [pc EXCEPT ![t] = "drop_clear"]
    /\ UNCHANGED <<RUNTIME_RUNNING, cur, attr, lastDone, quit_requested, notRt>>

\* Mutant of DropClear: the drop returns without clearing the flag.
DropClear_KeepsFlag(t) ==
    /\ pc[t] = "drop_clear"
    /\ rt' = [rt EXCEPT ![cur[t]].state = "dropped"]
    /\ pc' = [pc EXCEPT ![t] = "idle"]
    /\ cur' = [cur EXCEPT ![t] = 0]
    /\ lastDone' = "drop"
    /\ UNCHANGED <<RUNTIME_RUNNING, attr, quit_requested, notRt>>

\* RUNTIME_RUNNING.store(false, Relaxed)
DropClear(t) ==
    /\ pc[t] = "drop_clear"
    /\ RUNTIME_RUNNING' = FALSE
    /\ rt' = [rt EXCEPT ![cur[t]].state = "dropped"]
    /\ pc' = [pc EXCEPT ![t] = "idle"]
    /\ cur' = [cur EXCEPT ![t] = 0]
    /\ lastDone' = "drop"
    /\ UNCHANGED <<attr, quit_requested, notRt>>

\* ---------------------------------------------------- WebView (webview.rs)
\* The callbacks of sys::WebViewHandler registered by WebView::new.
Callbacks ==
    {"on_state_change", "on_ime_rect", "on_frame", "on_title_change",
     "on_fullscreen_change", "on_message"}

\* The WebView methods that hand self.raw to the engine.
WebViewOps ==
    {"send_message", "window_handle", "devtools_enabled", "mouse", "keyboard",
     "ime", "resize"}

\* A native call made with WebView w's handle: remembers whether the owning
\* Runtime's close_runtime had been called by then.
PassHandle(w) ==
    wv[w].usedAfterRuntimeClose \/ rt[wv[w].owner].raw = "closed"

\* Runtime::create_webview -> WebView::new: Box::into_raw(handler),
\* sys::create_webview(runtime, ..); null returns Err(FailedToCreateWebView).
CreateWebView(t, r, ptr) ==
    /\ pc[t] = "idle"
    /\ rt[r].state = "live"
    /\ FreeWebView # 0
    /\ IF ptr = "null"
       THEN UNCHANGED wv
       ELSE wv' = [wv EXCEPT ![FreeWebView] =
                     [state |-> "live", owner |-> r, raw |-> "open",
                      handler |-> "boxed", cb |-> "none", raced |-> FALSE,
                      usedAfterRuntimeClose |-> FALSE]]
    /\ UNCHANGED <<rtVars, notWv>>

\* send_message, window_handle, devtools_enabled, mouse, keyboard, ime, resize:
\* each passes self.raw.lock().as_ptr() to its native entry point.
WebViewOp(t, w, op) ==
    /\ pc[t] = "idle"
    /\ wv[w].state = "live"
    /\ op \in WebViewOps
    /\ wv' = [wv EXCEPT ![w].usedAfterRuntimeClose = PassHandle(w)]
    /\ UNCHANGED <<rtVars, notWv>>

\* Mutant of WebViewDropClose: the drop frees the handler without calling
\* sys::close_webview.
WebViewDropClose_SkipsClose(t, w) ==
    /\ pc[t] = "idle"
    /\ wv[w].state = "live"
    /\ wv' = [wv EXCEPT ![w].state = "dropping", ![w].raced = (wv[w].cb # "none")]
    /\ pc' = [pc EXCEPT ![t] = "wv_drop_free"]
    /\ cur' = [cur EXCEPT ![t] = w]
    /\ UNCHANGED <<RUNTIME_RUNNING, attr, lastDone, rt, quit_requested, notWv>>

\* Drop for WebView: sys::close_webview(self.raw.lock().as_ptr()) is called.
WebViewDropClose(t, w) ==
    /\ pc[t] = "idle"
    /\ wv[w].state = "live"
    /\ wv' = [wv EXCEPT ![w].state = "dropping",
                        ![w].raw = "closing",
                        ![w].raced = (wv[w].cb # "none"),
                        ![w].usedAfterRuntimeClose = PassHandle(w)]
    /\ pc' = [pc EXCEPT ![t] = "wv_drop_closing"]
    /\ cur' = [cur EXCEPT ![t] = w]
    /\ UNCHANGED <<RUNTIME_RUNNING, attr, lastDone, rt, quit_requested, notWv>>

\* The native close returns: per the written specification it is a barrier, no
\* callback of this WebView arrives once it has returned.
CloseWebViewReturn(t) ==
    /\ pc[t] = "wv_drop_closing"
    /\ wv[cur[t]].cb = "none"
    /\ wv' = [wv EXCEPT ![cur[t]].raw = "closed"]
    /\ pc' = [pc EXCEPT ![t] = "wv_drop_free"]
    /\ UNCHANGED <<RUNTIME_RUNNING, cur, attr, lastDone, rt, quit_requested, notWv>>

\* Mutant of WebViewDropFree: the drop frees the boxed handler of every WebView
\* of the same Runtime.
WebViewDropFree_FreesSiblings(t) ==
    /\ pc[t] = "wv_drop_free"
    /\ wv' = [w \in WebViewIds |->
                IF w = cur[t]
                THEN [wv[w] EXCEPT !.handler = "freed", !.state = "dropped"]
                ELSE IF wv[w].owner = wv[cur[t]].owner /\ wv[w].handler = "boxed"
                     THEN [wv[w] EXCEPT !.handler = "freed"]
                     ELSE wv[w]]
    /\ pc' = [pc EXCEPT ![t] = "idle"]
    /\ cur' = [cur EXCEPT ![t] = 0]
    /\ UNCHANGED <<RUNTIME_RUNNING, attr, lastDone, rt, quit_requested, notWv>>

\* drop(Box::from_raw(self.handler.as_ptr())); the drop returns.
WebViewDropFree(t) ==
    /\ pc[t] = "wv_drop_free"
    /\ wv' = [wv EXCEPT ![cur[t]].handler = "freed", ![cur[t]].state = "dropped"]
    /\ pc' = [pc EXCEPT ![t] = "idle"]
    /\ cur' = [cur EXCEPT ![t] = 0]
    /\ UNCHANGED <<RUNTIME_RUNNING, attr, lastDone, rt, quit_requested, notWv>>

\* The engine may invoke a trampoline of WebView w: between the return of
\* create_webview and the call of close_webview, one callback at a time.
EngineMayFire(w) ==
    /\ wv[w].raw = "open"
    /\ wv[w].cb = "none"

\* Mutant of Trampoline: a trampoline runs as soon as the handler has been
\* boxed and registered, whether or not create_webview has returned.
Trampoline_OnceRegistered(w, k) ==
    /\ wv[w].handler = "boxed"
    /\ wv[w].cb = "none"
    /\ k \in Callbacks
    /\ wv' = [wv EXCEPT ![w].cb = k]
    /\ UNCHANGED <<rtVars, notWv>>

\* on_*_callback: the trampoline dereferences the context and calls the host
\* handler's method on the calling (engine) thread.
Trampoline(w, k) ==
    /\ EngineMayFire(w)
    /\ k \in Callbacks
    /\ wv' = [wv EXCEPT ![w].cb = k]
    /\ UNCHANGED <<rtVars, notWv>>

\* The host handler's method returns, and with it the trampoline.
TrampolineReturn(w) ==
    /\ wv[w].cb # "none"
    /\ wv' = [wv EXCEPT ![w].cb = "none"]
    /\ UNCHANGED <<rtVars, notWv>>

\* WebView::new up to the native call: Box::into_raw(Box::new(handler)) and
\* sys::create_webview(runtime, url, &options, handler table) is entered.
WebViewNewCall(t, r) ==
    /\ pc[t] = "idle"
    /\ rt[r].state = "live"
    /\ FreeWebView # 0
    /\ wv' = [wv EXCEPT ![FreeWebView] =
                [state |-> "constructing", owner |-> r, raw |-> "null",
                 handler |-> "boxed", cb |-> "none", raced |-> FALSE,
                 usedAfterRuntimeClose |-> (rt[r].raw = "closed")]]
    /\ pc' = [pc EXCEPT ![t] = "wv_new_create"]
    /\ cur' = [cur EXCEPT ![t] = FreeWebView]
    /\ UNCHANGED <<RUNTIME_RUNNING, attr, lastDone, rt, quit_requested, notWv>>

\* sys::create_webview returns: if ptr.is_null() { return
\* Err(FailedToCreateWebView) } (the boxed handler is not freed), else
\* Ok(Self { handler, raw: Mutex::new(raw), .. }).
WebViewNewReturn(t, ptr) ==
    /\ pc[t] = "wv_new_create"
    /\ IF ptr = "null"
       THEN wv' = [wv EXCEPT ![cur[t]].state = "failed", ![cur[t]].handler = "leaked"]
       ELSE wv' = [wv EXCEPT ![cur[t]].state = "live", ![cur[t]].raw = "open"]
    /\ pc' = [pc EXCEPT ![t] = "idle"]
    /\ cur' = [cur EXCEPT ![t] = 0]
    /\ UNCHANGED <<RUNTIME_RUNNING, attr, lastDone, rt, quit_requested, notWv>>

\* ------------------------------------------------ WebView::mouse (webview.rs)
\* Sample cursor positions and wheel deltas (Position { x, y }).
Positions == {<<0, 0>>, <<10, 20>>, <<30, 40>>}

\* Option::<Position>::None.
NoPosition == <<>>

MouseButtons == {"Left", "Middle", "Right"}
KeyStates == {"Down", "Up"}

\* MouseAction: Move(Position), Wheel(Position), Click(button, state, Option<Position>).
MouseActions ==
    [kind : {"Move"}, pos : Positions]
        \cup [kind : {"Wheel"}, pos : Positions]
        \cup [kind : {"Click"}, button : MouseButtons, state : KeyStates,
              pos : Positions \cup {NoPosition}]

\* What a call contributes to the history: which WebView, which kind of action,
\* and the Position it carries: the cursor position of a Move or Click, the
\* scroll delta of a Wheel (buttons are left out).
Recorded(w, a) ==
    [w |-> w, kind |-> a.kind, pos |-> a.pos]

\* Mutant of Mouse: a click with a position dispatches that position without
\* storing it in the cache.
Mouse_ClickDoesNotCache(w, a) ==
    /\ wv[w].state = "live"
    /\ Len(history) < MaxActions
    /\ a \in MouseActions
    /\ LET event == IF a.kind = "Move" THEN a.pos ELSE mouse_event[w]
           sent == IF a.kind = "Click" /\ a.pos # NoPosition THEN a.pos ELSE event
       IN /\ mouse_event' = [mouse_event EXCEPT ![w] = event]
          /\ dispatched' =
                CASE a.kind = "Move" ->
                        [fn |-> "webview_mouse_move", w |-> w, x |-> sent[1], y |-> sent[2]]
                  [] a.kind = "Wheel" ->
                        [fn |-> "webview_mouse_wheel", w |-> w, x |-> sent[1], y |-> sent[2],
                         dx |-> a.pos[1], dy |-> a.pos[2]]
                  [] a.kind = "Click" ->
                        [fn |-> "webview_mouse_click", w |-> w, x |-> sent[1], y |-> sent[2],
                         button |-> a.button, pressed |-> (a.state = "Down")]
    /\ history' = Append(history, Recorded(w, a))
    /\ wv' = [wv EXCEPT ![w].usedAfterRuntimeClose = PassHandle(w)]
    /\ UNCHANGED notWvMouse

\* Mutant of Mouse: a wheel event stores its delta in the cached event as a
\* move stores its position.
Mouse_WheelMovesCursor(w, a) ==
    /\ wv[w].state = "live"
    /\ Len(history) < MaxActions
    /\ a \in MouseActions
    /\ LET event == IF a.kind \in {"Move", "Wheel"} \/ (a.kind = "Click" /\ a.pos # NoPosition)
                    THEN a.pos
                    ELSE mouse_event[w]
       IN /\ mouse_event' = [mouse_event EXCEPT ![w] = event]
          /\ dispatched' =
                CASE a.kind = "Move" ->
                        [fn |-> "webview_mouse_move", w |-> w, x |-> event[1], y |-> event[2]]
                  [] a.kind = "Wheel" ->
                        [fn |-> "webview_mouse_wheel", w |-> w, x |-> event[1], y |-> event[2],
                         dx |-> a.pos[1], dy |-> a.pos[2]]
                  [] a.kind = "Click" ->
                        [fn |-> "webview_mouse_click", w |-> w, x |-> event[1], y |-> event[2],
                         button |-> a.button, pressed |-> (a.state = "Down")]
    /\ history' = Append(history, Recorded(w, a))
    /\ wv' = [wv EXCEPT ![w].usedAfterRuntimeClose = PassHandle(w)]
    /\ UNCHANGED notWvMouse

\* WebView::mouse, under the mouse_event lock from entry to return: Move and
\* Click(_, _, Some(pos)) store pos in the cached event, then the cached event is
\* handed to webview_mouse_move / _wheel / _click.
Mouse(w, a) ==
    /\ wv[w].state = "live"
    /\ Len(history) < MaxActions
    /\ a \in MouseActions
    /\ LET event == IF a.kind = "Move" \/ (a.kind = "Click" /\ a.pos # NoPosition)
                    THEN a.pos
                    ELSE mouse_event[w]
       IN /\ mouse_event' = [mouse_event EXCEPT ![w] = event]
          /\ dispatched' =
                CASE a.kind = "Move" ->
                        [fn |-> "webview_mouse_move", w |-> w, x |-> event[1], y |-> event[2]]
                  [] a.kind = "Wheel" ->
                        [fn |-> "webview_mouse_wheel", w |-> w, x |-> event[1], y |-> event[2],
                         dx |-> a.pos[1], dy |-> a.pos[2]]
                  [] a.kind = "Click" ->
                        [fn |-> "webview_mouse_click", w |-> w, x |-> event[1], y |-> event[2],
                         button |-> a.button, pressed |-> (a.state = "Down")]
    /\ history' = Append(history, Recorded(w, a))
    /\ wv' = [wv EXCEPT ![w].usedAfterRuntimeClose = PassHandle(w)]
    /\ UNCHANGED notWvMouse

\* ------------------------------- the mutexes of WebView (webview.rs)
\* Sample mouse actions for calls made concurrently on one WebView.
SharedMouseActions ==
    [kind : {"Move"}, pos : {<<10, 20>>}]
        \cup [kind : {"Wheel"}, pos : {<<10, 20>>}]
        \cup [kind : {"Click"}, button : {"Left"}, state : {"Down"},
              pos : {NoPosition, <<30, 40>>}]

\* A host thread calls mouse on the shared WebView 1: the call begins with
\* self.mouse_event.lock().
MouseCall(t, a) ==
    /\ lpc[t] = "idle"
    /\ calls < MaxCalls
    /\ wv[1].state = "live"
    /\ a \in SharedMouseActions
    /\ lop' = [lop EXCEPT ![t] = [op |-> "mouse", a |-> a]]
    /\ lpc' = [lpc EXCEPT ![t] = "lock_event"]
    /\ calls' = calls + 1
    /\ UNCHANGED <<lev, eventLock, rawLock, notLock>>

\* A host thread calls one of the other methods: each begins with
\* self.raw.lock() as the first argument of its native call.
MethodCall(t, op) ==
    /\ lpc[t] = "idle"
    /\ calls < MaxCalls
    /\ wv[1].state = "live"
    /\ op \in WebViewOps \ {"mouse"}
    /\ lop' = [lop EXCEPT ![t] = [op |-> op]]
    /\ lpc' = [lpc EXCEPT ![t] = "lock_raw"]
    /\ calls' = calls + 1
    /\ UNCHANGED <<lev, eventLock, rawLock, notLock>>

\* let mut event = self.mouse_event.lock(); then, under the guard, Move and
\* Click with a position assign event.x / event.y.
LockEvent(t) ==
    /\ lpc[t] = "lock_event"
    /\ eventLock = 0
    /\ eventLock' = t
    /\ LET a == lop[t].a
           event == IF a.kind = "Move" \/ (a.kind = "Click" /\ a.pos # NoPosition)
                    THEN a.pos
                    ELSE mouse_event[1]
       IN /\ mouse_event' = [mouse_event EXCEPT ![1] = event]
          /\ lev' = [lev EXCEPT ![t] = event]
    /\ lpc' = [lpc EXCEPT ![t] = "lock_raw"]
    /\ UNCHANGED <<lop, rawLock, calls, dispatched, history>>
    /\ UNCHANGED notMouseLock

\* Mutant of LockRaw: the guard of mouse_event is given up once the handle
\* is locked.
LockRaw_DropsEventGuard(t) ==
    /\ lpc[t] = "lock_raw"
    /\ rawLock = 0
    /\ rawLock' = t
    /\ eventLock' = IF eventLock = t THEN 0 ELSE eventLock
    /\ lpc' = [lpc EXCEPT ![t] = "native"]
    /\ UNCHANGED <<lop, lev, calls, notLock>>

\* self.raw.lock(), the first argument of the native call; the guard is a
\* temporary of the call statement.
LockRaw(t) ==
    /\ lpc[t] = "lock_raw"
    /\ rawLock = 0
    /\ rawLock' = t
    /\ lpc' = [lpc EXCEPT ![t] = "native"]
    /\ UNCHANGED <<lop, lev, eventLock, calls, notLock>>

\* The native call is made with the locked handle and, for mouse, with *event
\* read through the guard; per the written specification it returns.
NativeCall(t) ==
    /\ lpc[t] = "native"
    /\ IF lop[t].op = "mouse"
       THEN LET a == lop[t].a
                event == mouse_event[1]
            IN dispatched' =
                  CASE a.kind = "Move" ->
                          [fn |-> "webview_mouse_move", w |-> 1, x |-> event[1], y |-> event[2]]
                    [] a.kind = "Wheel" ->
                          [fn |-> "webview_mouse_wheel", w |-> 1, x |-> event[1], y |-> event[2],
                           dx |-> a.pos[1], dy |-> a.pos[2]]
                    [] a.kind = "Click" ->
                          [fn |-> "webview_mouse_click", w |-> 1, x |-> event[1], y |-> event[2],
                           button |-> a.button, pressed |-> (a.state = "Down")]
       ELSE UNCHANGED dispatched
    /\ wv' = [wv EXCEPT ![1].usedAfterRuntimeClose = PassHandle(1)]
    /\ lpc' = [lpc EXCEPT ![t] = "unlock_raw"]
    /\ UNCHANGED <<lop, lev, eventLock, rawLock, calls, mouse_event, history>>
    /\ UNCHANGED notWvMouseLock

\* The call statement ends: the temporary guard of raw is dropped. Every
\* method but mouse returns here.
UnlockRaw(t) ==
    /\ lpc[t] = "unlock_raw"
    /\ rawLock' = 0
    /\ lpc' = [lpc EXCEPT ![t] = IF lop[t].op = "mouse" THEN "unlock_event" ELSE "idle"]
    /\ UNCHANGED <<lop, lev, eventLock, calls, notLock>>

\* mouse returns: the guard event is dropped.
UnlockEvent(t) ==
    /\ lpc[t] = "unlock_event"
    /\ eventLock' = 0
    /\ lpc' = [lpc EXCEPT ![t] = "idle"]
    /\ UNCHANGED <<lop, lev, rawLock, calls, notLock>>

\* ------------------------------------------------- Park / UnPark (sync.rs)
\* Values an UnPark deposits: Park<()> carries the unit value, Park<bool>
\* whether the page loaded.
Values == {"unit", "true", "false"}

\* Park::new: an empty slot, no registered waker, runing = true, one Park for
\* the awaiting task and one UnPark for the handler.
ParkNew ==
    /\ ppc = "none"
    /\ upc = "none"
    /\ output' = "None"
    /\ runing' = TRUE
    /\ waker' = FALSE
    /\ notified' = FALSE
    /\ ppc' = "idle"
    /\ upc' = "held"
    /\ resolved' = "unpolled"
    /\ deposited' = "None"
    /\ UNCHANGED notPark

\* Park::poll, first statement: self.output.lock().take(). The executor polls
\* a task when it is first awaited, after each wake, and possibly in between;
\* a resolved future is not polled again. The guard of the lock is a temporary
\* of the scrutinee and is released before the else block.
PollTake ==
    /\ ppc = "idle"
    /\ resolved \in {"unpolled", "Pending"}
    /\ notified' = FALSE
    /\ output' = "None"
    /\ IF output # "None"
       THEN /\ resolved' = output
            /\ ppc' = "idle"
       ELSE /\ resolved' = resolved
            /\ ppc' = "check"
    /\ UNCHANGED <<runing, waker, upc, deposited>>
    /\ UNCHANGED notPark

\* Park::poll, else block: if !self.runing.load(Relaxed) return Ready(None).
PollCheckRuning ==
    /\ ppc = "check"
    /\ IF ~runing
       THEN /\ resolved' = "ReadyNone"
            /\ ppc' = "idle"
       ELSE /\ resolved' = resolved
            /\ ppc' = "register"
    /\ UNCHANGED <<output, runing, waker, notified, upc, deposited>>
    /\ UNCHANGED notPark

\* Park::poll, tail: self.waker.register(cx.waker()); Poll::Pending.
PollRegister ==
    /\ ppc = "register"
    /\ waker' = TRUE
    /\ resolved' = "Pending"
    /\ ppc' = "idle"
    /\ UNCHANGED <<output, runing, notified, upc, deposited>>
    /\ UNCHANGED notPark

\* Drop for Park: the awaiting task gives the future up.
ParkDrop ==
    /\ ppc = "idle"
    /\ runing' = FALSE
    /\ ppc' = "dropped"
    /\ UNCHANGED <<output, waker, notified, resolved, upc, deposited>>
    /\ UNCHANGED notPark

\* UnPark::unpark, first statement: self.output.lock().replace(output).
UnparkReplace(v) ==
    /\ upc = "held"
    /\ v \in Values
    /\ output' = v
    /\ deposited' = v
    /\ upc' = "wake"
    /\ UNCHANGED <<runing, waker, notified, ppc, resolved>>
    /\ UNCHANGED notPark

\* UnPark::unpark, second statement: self.waker.wake() takes the registered
\* waker, if any, and wakes the task.
UnparkWake ==
    /\ upc = "wake"
    /\ notified' = (notified \/ waker)
    /\ waker' = FALSE
    /\ upc' = "drop"
    /\ UNCHANGED <<output, runing, ppc, resolved, deposited>>
    /\ UNCHANGED notPark

\* Drop for UnPark, at the end of unpark(self, ..) or when the handler that
\* holds it is freed without having fired: runing.store(false).
UnparkDrop ==
    /\ upc \in {"held", "drop"}
    /\ runing' = FALSE
    /\ upc' = "done"
    /\ UNCHANGED <<output, waker, notified, ppc, resolved, deposited>>
    /\ UNCHANGED notPark

\* ------------------------------------- async_create_webview (sync.rs)
\* The values of WebViewState; Loaded and LoadError end the first navigation.
WebViewStates == {"BeforeLoad", "Loaded", "LoadError", "Close"}
TerminalStates == {"Loaded", "LoadError"}

\* The engine calls AsyncWebViewHandler::on_state_change(state), one callback
\* at a time.
OnStateChange(state) ==
    /\ upc # "none"
    /\ delivering = "none"
    /\ state \in WebViewStates
    /\ delivering' = state
    /\ firstTerminal' = IF firstTerminal = "none" /\ state \in TerminalStates
                        THEN state
                        ELSE firstTerminal
    /\ UNCHANGED <<created, parkVars, notParkAsync>>

\* if state is Loaded or LoadError, and self.unpark.lock().take() is Some:
\* unpark.unpark(state == Loaded) begins by depositing the value.
OnStateChangeUnpark ==
    /\ delivering \in TerminalStates
    /\ UnparkReplace(IF delivering = "Loaded" THEN "true" ELSE "false")

\* The rest of on_state_change: the state is forwarded to the host's handler
\* and the callback returns. An unpark that was begun has run to its end.
OnStateChangeReturn ==
    /\ delivering # "none"
    /\ upc \in {"held", "done"}
    /\ delivering \in TerminalStates => upc = "done"
    /\ delivering' = "none"
    /\ UNCHANGED <<firstTerminal, created, parkVars, notParkAsync>>

\* async_create_webview after park.await: Ok(webview) if the Park resolved to
\* Some(true), Err(FailedToCreateWebView) otherwise.
AwaitReturn ==
    /\ created = "none"
    /\ ppc = "idle"
    /\ resolved \in Values \cup {"ReadyNone"}
    /\ created' = IF resolved = "true" THEN "Ok" ELSE "FailedToCreateWebView"
    /\ UNCHANGED <<delivering, firstTerminal, parkVars, notParkAsync>>

\* --------------------------------- poll, block_run, quit (runtime.rs)
\* No Runtime is active: none has been constructed, or it has been dropped.
NoRuntimeActive ==
    \A r \in RuntimeIds : rt[r].state \in {"none", "dropped"}

\* Some host thread is inside a method that borrows the Runtime.
BorrowedByLoopCall ==
    \E t \in Threads : pc[t] \in {"block_run", "polling"}

\* Runtime<MainThreadRuntime>::block_run(&self): sys::run_message_loop() is
\* entered; nothing is tested before the native call.
BlockRunEnter(t) ==
    /\ pc[t] = "idle"
    /\ kind = "MainThreadRuntime"
    /\ rt[1].state = "live"
    /\ pc' = [pc EXCEPT ![t] = "block_run"]
    /\ driven' = TRUE
    /\ UNCHANGED <<RUNTIME_RUNNING, cur, attr, lastDone, rt, quit_requested>>
    /\ UNCHANGED <<kind, initialized, polls, notRtLoop>>

\* The blocking native run call returns once a quit has been issued.
BlockRunReturn(t) ==
    /\ pc[t] = "block_run"
    /\ quit_requested
    /\ pc' = [pc EXCEPT ![t] = "idle"]
    /\ UNCHANGED <<RUNTIME_RUNNING, cur, attr, lastDone, rt, quit_requested>>
    /\ UNCHANGED <<loopVars, notRtLoop>>

\* Runtime<MainThreadRuntime>::quit(&self): sys::quit_message_loop().
Quit(t) ==
    /\ pc[t] = "idle"
    /\ kind = "MainThreadRuntime"
    /\ rt[1].state = "live"
    /\ ~quit_requested
    /\ quit_requested' = TRUE
    /\ UNCHANGED <<RUNTIME_RUNNING, pc, cur, attr, lastDone, rt>>
    /\ UNCHANGED <<loopVars, notRtLoop>>

\* Mutant of PollEnter: a poll marks a Runtime as running.
PollEnter_SetsFlag(t) ==
    /\ pc[t] = "idle"
    /\ polls < MaxPolls
    /\ kind = "MessagePumpRuntime" \/ NoRuntimeActive
    /\ pc' = [pc EXCEPT ![t] = "polling"]
    /\ polls' = polls + 1
    /\ driven' = (driven \/ ~NoRuntimeActive)
    /\ RUNTIME_RUNNING' = TRUE
    /\ UNCHANGED <<cur, attr, lastDone, rt, quit_requested>>
    /\ UNCHANGED <<kind, initialized, notRtLoop>>

\* poll: sys::poll_message_loop() is entered. Runtime<MessagePumpRuntime>::poll
\* takes &self; the associated function poll() of the untyped Runtime can be
\* called with no Runtime at all.
PollEnter(t) ==
    /\ pc[t] = "idle"
    /\ polls < MaxPolls
    /\ kind = "MessagePumpRuntime" \/ NoRuntimeActive
    /\ pc' = [pc EXCEPT ![t] = "polling"]
    /\ polls' = polls + 1
    /\ driven' = (driven \/ ~NoRuntimeActive)
    /\ UNCHANGED <<RUNTIME_RUNNING, cur, attr, lastDone, rt, quit_requested>>
    /\ UNCHANGED <<kind, initialized, notRtLoop>>

\* sys::poll_message_loop() returns: one pass of pending work has been done.
PollReturn(t) ==
    /\ pc[t] = "polling"
    /\ delivering = "none"
    /\ pc' = [pc EXCEPT ![t] = "idle"]
    /\ UNCHANGED <<RUNTIME_RUNNING, cur, attr, lastDone, rt, quit_requested>>
    /\ UNCHANGED <<loopVars, notRtLoop>>

\* The engine's loop of the Runtime is turning: its spawned thread is inside
\* execute_runtime, or a host thread is inside block_run or poll.
LoopTurning ==
    IF rt[1].multi
    THEN rt[1].loop = "running"
    ELSE BorrowedByLoopCall

\* The engine signals context-initialized through the on_context_initialized
\* trampoline, once, from the turning loop of an open Runtime.
ContextInitialized ==
    /\ rt[1].raw = "open"
    /\ rt[1].state \in {"live", "dropping"}
    /\ LoopTurning
    /\ ~initialized
    /\ delivering = "none"
    /\ delivering' = "on_context_initialized"
    /\ UNCHANGED <<firstTerminal, created, loopVars, rtVars, notRtAsyncLoop>>

\* AsyncRuntimeHandler::on_context_initialized: if self.unpark.lock().take()
\* is Some, unpark.unpark(()) begins by depositing the unit value.
ContextInitializedUnpark ==
    /\ delivering = "on_context_initialized"
    /\ UnparkReplace("unit")

\* Mutant of ContextInitializedReturn: the callback is reported as delivered
\* to the host handler although none is in flight.
ContextInitializedReturn_Unprompted ==
    /\ ~initialized
    /\ rt[1].state = "live"
    /\ upc \in {"none", "done"}
    /\ initialized' = TRUE
    /\ delivering' = "none"
    /\ UNCHANGED <<firstTerminal, created, kind, driven, polls, rtVars, notRtAsyncLoop>>

\* Mutant of ContextInitializedReturn: the wrapper forwards to the host
\* handler a second time before the trampoline returns.
ContextInitializedReturn_ForwardsTwice ==
    /\ delivering = "on_context_initialized"
    /\ upc \in {"none", "done"}
    /\ initialized' = TRUE
    /\ delivering' = IF initialized THEN "none" ELSE delivering
    /\ UNCHANGED <<firstTerminal, created, kind, driven, polls, rtVars, notRtAsyncLoop>>

\* The trampoline forwards to the host handler's on_context_initialized and
\* returns; an unpark that was begun has run to its end.
ContextInitializedReturn ==
    /\ delivering = "on_context_initialized"
    /\ upc \in {"none", "done"}
    /\ initialized' = TRUE
    /\ delivering' = "none"
    /\ UNCHANGED <<firstTerminal, created, kind, driven, polls, rtVars, notRtAsyncLoop>>

\* async_create_runtime after park.await: Err(FailedToCreateRuntime) if the
\* Park resolved to None, Ok(runtime) otherwise.
AwaitRuntimeReturn ==
    /\ created = "none"
    /\ ppc = "idle"
    /\ resolved \in Values \cup {"ReadyNone"}
    /\ created' = IF resolved = "ReadyNone" THEN "FailedToCreateRuntime" ELSE "Ok"
    /\ UNCHANGED <<delivering, firstTerminal, parkVars, notParkAsync>>

\* ----------------- async_create_runtime / async_create_webview (sync.rs)
AsyncCalls == {"async_create_runtime", "async_create_webview"}

\* What Runtime::new has returned to async_create_runtime ("pending" while the
\* task is still inside Runtime::new).
RuntimeNewResult ==
    IF pc[1] \in {"new_load", "new_store", "new_create", "new_execute"}
    THEN "pending"
    ELSE lastDone

\* Err(e) => Err(e) of async_create_runtime: the error of Runtime::new is
\* returned as it is; the Park is dropped with the frame.
AsyncRuntimeNewErr ==
    /\ acall = "async_create_runtime"
    /\ created = "none"
    /\ RuntimeNewResult \in {"RuntimeAlreadyExists", "FailedToCreateRuntime"}
    /\ ppc = "idle"
    /\ created' = RuntimeNewResult
    /\ ppc' = "dropped"
    /\ runing' = FALSE
    /\ UNCHANGED <<delivering, firstTerminal, output, waker, notified, resolved, upc,
                   deposited, notParkAsync>>

\* Mutant of AsyncRuntimeAwait: the Park is awaited whatever Runtime::new
\* returned.
AsyncRuntimeAwait_AnyArm ==
    /\ acall = "async_create_runtime"
    /\ created = "none"
    /\ RuntimeNewResult # "pending"
    /\ PollTake \/ PollCheckRuning \/ PollRegister

\* Ok(runtime) => park.await: the task polls the Park.
AsyncRuntimeAwait ==
    /\ acall = "async_create_runtime"
    /\ created = "none"
    /\ RuntimeNewResult = "Ok"
    /\ PollTake \/ PollCheckRuning \/ PollRegister

\* if park.await.is_none() { return Err(FailedToCreateRuntime) }: the local
\* runtime goes out of scope, Drop for Runtime begins.
AsyncRuntimeDrop ==
    /\ acall = "async_create_runtime"
    /\ created = "none"
    /\ RuntimeNewResult = "Ok"
    /\ ppc = "idle"
    /\ resolved = "ReadyNone"
    /\ ~BorrowedByLoopCall
    /\ DropQuit(1, 1)

\* The function returns: Ok(runtime) once the Park has resolved to Some(()),
\* the error once the drop of the local runtime has completed.
AsyncRuntimeReturn ==
    /\ acall = "async_create_runtime"
    /\ pc[1] = "idle"
    /\ \/ resolved = "unit" /\ rt[1].state = "live"
       \/ resolved = "ReadyNone" /\ rt[1].state = "dropped"
    /\ AwaitRuntimeReturn

\* Err(e) => Err(e) of async_create_webview.
AsyncWebViewNewErr ==
    /\ acall = "async_create_webview"
    /\ created = "none"
    /\ wv[1].state = "failed"
    /\ ppc = "idle"
    /\ created' = "FailedToCreateWebView"
    /\ ppc' = "dropped"
    /\ runing' = FALSE
    /\ UNCHANGED <<delivering, firstTerminal, output, waker, notified, resolved, upc,
                   deposited, notParkAsync>>

\* Ok(webview) => park.await: the task polls the Park.
AsyncWebViewAwait ==
    /\ acall = "async_create_webview"
    /\ created = "none"
    /\ wv[1].state = "live"
    /\ PollTake \/ PollCheckRuning \/ PollRegister

\* park.await was Some(false) or None: Err(FailedToCreateWebView) is the value
\* of the arm, the local webview goes out of scope, Drop for WebView begins.
AsyncWebViewDrop ==
    /\ acall = "async_create_webview"
    /\ created = "none"
    /\ ppc = "idle"
    /\ resolved \in {"false", "ReadyNone"}
    /\ WebViewDropClose(1, 1)

\* Mutant of AsyncWebViewReturn: the error is returned with the WebView kept.
AsyncWebViewReturn_KeepsWebView ==
    /\ acall = "async_create_webview"
    /\ pc[1] = "idle"
    /\ wv[1].state \in {"live", "dropped"}
    /\ AwaitReturn

\* The function returns: Ok(webview) once the Park has resolved to Some(true),
\* the error once the drop of the local webview has completed.
AsyncWebViewReturn ==
    /\ acall = "async_create_webview"
    /\ pc[1] = "idle"
    /\ \/ resolved = "true" /\ wv[1].state = "live"
       \/ resolved \in {"false", "ReadyNone"} /\ wv[1].state = "dropped"
    /\ AwaitReturn

\* ------------------------------------ subprocess entry (lib.rs, examples)
\* Sample command-line arguments; the engine launches a helper with a
\* --type=<role> argument.
ArgTokens == {"app", "--type=renderer", "--url=about:blank"}

\* it.contains("--type")
ContainsType(arg) == arg = "--type=renderer"

ArgLists == UNION {[1..n -> ArgTokens] : n \in 0..MaxArgs}

\* is_subprocess(): args().find(|it| it.contains("--type")).is_some()
IsSubprocess(a) == \E i \in 1..Len(a) : ContainsType(a[i])

\* The two execute_subprocess functions of the repository.
SubprocessVariants == {"Runtime::execute_subprocess", "execute_subprocess"}

\* main: if is_subprocess() { execute_subprocess .. } and the construction
\* that follows otherwise.
MainIsSubprocess ==
    /\ spc = "start"
    /\ spc' = IF IsSubprocess(args) THEN "exec" ELSE "construct"
    /\ UNCHANGED <<args, tokio, variant, marshalled, nativeResult, ret, notSub>>

\* execute_subprocess of the tokio-based crate, first statement:
\* if Handle::try_current().is_ok() { panic!(..) }.
ExecCheckTokio ==
    /\ spc = "exec"
    /\ variant = "execute_subprocess"
    /\ IF tokio
       THEN ret' = "panic: does not work in tokio runtime" /\ spc' = "aborted"
       ELSE ret' = ret /\ spc' = "marshal"
    /\ UNCHANGED <<args, tokio, variant, marshalled, nativeResult, notSub>>

\* let args = Args::default() / get_args(): for Runtime::execute_subprocess
\* this is the first statement of the function.
ExecMarshal ==
    /\ \/ spc = "marshal"
       \/ spc = "exec" /\ variant = "Runtime::execute_subprocess"
    /\ marshalled' = TRUE
    /\ spc' = "native"
    /\ UNCHANGED <<args, tokio, variant, nativeResult, ret, notSub>>

\* The native subprocess executor: on success the process exits through the
\* engine and the call never returns; on failure it returns a non-zero code.
NativeExecute(result) ==
    /\ spc = "native"
    /\ result \in {"success", "failure"}
    /\ nativeResult' = result
    /\ spc' = IF result = "success" THEN "exited" ELSE "returned"
    /\ UNCHANGED <<args, tokio, variant, marshalled, ret, notSub>>

\* After the native call has returned: Runtime::execute_subprocess returns
\* (code == 0); the tokio-based execute_subprocess runs unreachable!(..).
ExecReturn ==
    /\ spc = "returned"
    /\ IF variant = "Runtime::execute_subprocess"
       THEN ret' = "false" /\ spc' = "main"
       ELSE ret' = "panic: sub process closed, this is a bug" /\ spc' = "aborted"
    /\ UNCHANGED <<args, tokio, variant, marshalled, nativeResult, notSub>>

\* Mutant of MainAfterExec: main ignores what execute_subprocess returned.
MainAfterExec_IgnoresResult ==
    /\ spc = "main"
    /\ spc' = "construct"
    /\ UNCHANGED <<args, tokio, variant, marshalled, nativeResult, ret, notSub>>

\* main: if !Runtime::execute_subprocess() { panic!("subprocess execute failed!") }
MainAfterExec ==
    /\ spc = "main"
    /\ spc' = IF ret = "false" THEN "aborted" ELSE "construct"
    /\ UNCHANGED <<args, tokio, variant, marshalled, nativeResult, ret, notSub>>

\* main goes on to construct the Runtime, then a WebView.
MainConstruct ==
    /\ spc \in {"construct", "runtime"}
    /\ spc' = IF spc = "construct" THEN "runtime" ELSE "webview"
    /\ UNCHANGED <<args, tokio, variant, marshalled, nativeResult, ret, notSub>>

\* ------------------------- handler dispatch (runtime.rs, webview.rs, sync.rs)
\* A registered handler: the enum variant of the boxed value, what the variant
\* holds (the host's handler or an async wrapper) and, for a wrapper, the
\* variant of the handler field it holds the host's handler in.
NoHandler == [variant |-> "none", target |-> "none", inner |-> "none"]

CreationPaths == {"plain", "async"}

WebViewKinds == {"WindowlessRenderWebView", "NativeWindowWebView"}

\* The variant the host's Runtime handler is boxed in, by strategy:
\* RuntimeHandler for main-thread and multi-thread, MessagePumpRuntimeHandler
\* for message-pump.
HostRuntimeVariant(strategy) ==
    IF strategy = "MessagePumpRuntime"
    THEN "MessagePumpRuntimeHandler"
    ELSE "RuntimeHandler"

\* create_runtime passes the host's handler in its variant; async_create_runtime
\* passes MessagePumpRuntimeHandler(AsyncRuntimeHandler { handler: .. }) for
\* every strategy.
RegisteredRuntimeHandler(path, strategy) ==
    IF path = "plain"
    THEN [variant |-> HostRuntimeVariant(strategy), target |-> "host", inner |-> "none"]
    ELSE [variant |-> "MessagePumpRuntimeHandler", target |-> "AsyncRuntimeHandler",
          inner |-> HostRuntimeVariant(strategy)]

HostWebViewVariant(k) ==
    IF k = "WindowlessRenderWebView"
    THEN "WindowlessRenderWebViewHandler"
    ELSE "WebViewHandler"

\* create_webview passes the host's handler in its variant; async_create_webview
\* passes WindowlessRenderWebViewHandler(AsyncWebViewHandler { handler: .. })
\* for both kinds.
RegisteredWebViewHandler(path, k) ==
    IF path = "plain"
    THEN [variant |-> HostWebViewVariant(k), target |-> "host", inner |-> "none"]
    ELSE [variant |-> "WindowlessRenderWebViewHandler", target |-> "AsyncWebViewHandler",
          inner |-> HostWebViewVariant(k)]

RuntimeCallbacks == {"on_context_initialized", "on_schedule_message_pump_work"}

\* What the engine hands a trampoline as its string argument.
Payloads == {"valid", "null", "invalid_utf8"}

\* Mutant of ScheduleTrampoline: the async wrapper forwards whatever variant
\* its handler field holds.
ScheduleTrampoline_IgnoresInner(h) ==
    IF h.variant = "MessagePumpRuntimeHandler"
    THEN "on_schedule_message_pump_work"
    ELSE "none"

\* extern "C" fn on_schedule_message_pump_work: only the
\* MessagePumpRuntimeHandler variant is called; AsyncRuntimeHandler forwards
\* only if its handler field is the MessagePumpRuntimeHandler variant.
ScheduleTrampoline(h) ==
    IF h.variant = "MessagePumpRuntimeHandler"
    THEN IF h.target = "host" \/ h.inner = "MessagePumpRuntimeHandler"
         THEN "on_schedule_message_pump_work"
         ELSE "none"
    ELSE "none"

\* extern "C" fn on_context_initialized: either variant is called, and
\* AsyncRuntimeHandler forwards to either variant of its handler field.
RuntimeTrampoline(k, h) ==
    IF k = "on_schedule_message_pump_work"
    THEN ScheduleTrampoline(h)
    ELSE "on_context_initialized"

\* Mutant of OffscreenTrampoline: the async wrapper forwards whatever variant
\* its handler field holds.
OffscreenTrampoline_IgnoresInner(k, h) ==
    IF h.variant = "WindowlessRenderWebViewHandler" THEN k ELSE "none"

\* on_ime_rect_callback / on_frame_callback: only the
\* WindowlessRenderWebViewHandler variant is called; AsyncWebViewHandler
\* forwards only if its handler field is that variant.
OffscreenTrampoline(k, h) ==
    IF h.variant = "WindowlessRenderWebViewHandler"
    THEN IF h.target = "host" \/ h.inner = "WindowlessRenderWebViewHandler"
         THEN k
         ELSE "none"
    ELSE "none"

\* The trampolines of sys::WebViewHandler. on_title_change_callback and
\* on_message_callback return at once on a null string and skip the call when
\* CStr::to_str fails; on_state_change_callback and
\* on_fullscreen_change_callback call either variant.
WebViewTrampoline(k, payload, h) ==
    CASE k \in {"on_ime_rect", "on_frame"} -> OffscreenTrampoline(k, h)
      [] k \in {"on_title_change", "on_message"} ->
            IF payload = "valid" THEN k ELSE "none"
      [] OTHER -> k

\* The engine invokes a Runtime trampoline with the registered context.
NativeRuntimeCallback(k) ==
    /\ rtHandler # NoHandler
    /\ k \in RuntimeCallbacks
    /\ nativeCb' = [name |-> k, payload |-> "none"]
    /\ hostCb' = RuntimeTrampoline(k, rtHandler)
    /\ UNCHANGED <<rtPath, wvPath, rtStrategy, wvKind, rtHandler, wvHandler, notDisp>>

\* The engine invokes a WebView trampoline with the registered context.
NativeWebViewCallback(k, payload) ==
    /\ wvHandler # NoHandler
    /\ k \in Callbacks
    /\ payload \in IF k \in {"on_title_change", "on_message"} THEN Payloads ELSE {"none"}
    /\ nativeCb' = [name |-> k, payload |-> payload]
    /\ hostCb' = WebViewTrampoline(k, payload, wvHandler)
    /\ UNCHANGED <<rtPath, wvPath, rtStrategy, wvKind, rtHandler, wvHandler, notDisp>>

\* ------------------------------- callback order (webview.rs, wrapper.rs)
\* The two sets of trampolines: the on_*_callback functions of webview.rs
\* and the ObserverWrapper::on_* functions of wrapper.rs.
Bindings == {"WebView", "Page"}

\* The Observer callbacks of webview_sys::PageObserver.
ObserverCallbacks ==
    {"on_state_change", "on_ime_rect", "on_frame", "on_title_change",
     "on_fullscreen_change"}

\* ObserverWrapper::on_*: on_state_change sends ChannelEvents::StateChange on
\* tx; on_title_change calls inner only if ffi::from(title) is Some (non-null,
\* valid UTF-8); the others call inner.
ObserverTrampoline(k, payload) ==
    CASE k = "on_state_change" -> "channel"
      [] k = "on_title_change" -> IF payload = "valid" THEN k ELSE "none"
      [] OTHER -> k

\* The engine invokes trampoline k: the trampoline runs on the engine's thread
\* and calls the handler's method, or sends on the channel, before it returns.
EngineFires(k, payload) ==
    /\ binding \in Bindings
    /\ Len(fired) < MaxCallbacks
    /\ k \in IF binding = "WebView" THEN Callbacks ELSE ObserverCallbacks
    /\ payload \in IF k \in {"on_title_change", "on_message"} THEN Payloads ELSE {"none"}
    /\ fired' = Append(fired, [name |-> k, payload |-> payload])
    /\ LET d == IF binding = "WebView"
                THEN WebViewTrampoline(k, payload,
                        RegisteredWebViewHandler("plain", "WindowlessRenderWebView"))
                ELSE ObserverTrampoline(k, payload)
       IN /\ observed' = IF d \in {"none", "channel"}
                         THEN observed
                         ELSE Append(observed, [name |-> d, n |-> Len(fired) + 1])
          /\ chan' = IF d = "channel" THEN Append(chan, Len(fired) + 1) ELSE chan
    /\ UNCHANGED <<binding, notOrder>>

\* Page::new's spawned task: receiver.recv() takes the next StateChange; it
\* only feeds the creation result, the Observer is not called.
ChannelRecv ==
    /\ chan # <<>>
    /\ chan' = Tail(chan)
    /\ UNCHANGED <<binding, fired, observed, notOrder>>

\* ------------------- the async wrappers beside the plain handlers (sync.rs)
\* The arguments the engine passes with a callback.
CallbackArgs(k) ==
    CASE k = "on_state_change" -> WebViewStates
      [] k \in {"on_title_change", "on_message"} -> Payloads
      [] OTHER -> {"none"}

\* The call that reaches the host handler when the engine invokes trampoline k
\* of a Runtime ("runtime") or a WebView ("webview") created on the given path.
HostCall(obj, path, k, arg) ==
    IF obj = "runtime"
    THEN RuntimeTrampoline(k, RegisteredRuntimeHandler(path, rtStrategy))
    ELSE WebViewTrampoline(k, arg, RegisteredWebViewHandler(path, wvKind))

\* AsyncRuntimeHandler::on_context_initialized and
\* AsyncWebViewHandler::on_state_change (Loaded / LoadError) take the UnPark,
\* if it is still there, and unpark before they forward.
Resolves(obj, k, arg) ==
    IF obj = "runtime"
    THEN k = "on_context_initialized" /\ pendingRt
    ELSE k = "on_state_change" /\ arg \in TerminalStates /\ pendingWv

\* Mutant of CallbackOnBothPaths: a wrapper that resolves the pending creation
\* returns without forwarding.
CallbackOnBothPaths_ResolveSuppresses(obj, k, arg) ==
    /\ obj \in {"runtime", "webview"}
    /\ k \in IF obj = "runtime" THEN RuntimeCallbacks ELSE Callbacks
    /\ arg \in CallbackArgs(k)
    /\ Len(fired) < MaxCallbacks
    /\ fired' = Append(fired, [name |-> k, payload |-> arg])
    /\ LET plain == HostCall(obj, "plain", k, arg)
           async == HostCall(obj, "async", k, arg)
       IN /\ hostPlain' = IF plain = "none"
                          THEN hostPlain
                          ELSE Append(hostPlain, [name |-> plain, arg |-> arg])
          /\ asyncTrace' =
                IF Resolves(obj, k, arg)
                THEN Append(asyncTrace, [name |-> "unpark", arg |-> arg])
                ELSE IF async = "none"
                     THEN asyncTrace
                     ELSE Append(asyncTrace, [name |-> async, arg |-> arg])
    /\ pendingRt' = (pendingRt /\ ~(obj = "runtime" /\ Resolves(obj, k, arg)))
    /\ pendingWv' = (pendingWv /\ ~(obj = "webview" /\ Resolves(obj, k, arg)))
    /\ UNCHANGED <<binding, observed, chan>>
    /\ UNCHANGED <<rtVars, wvVars, mouseVars, parkVars, pageVars, asyncVars, stratVars,
                   subVars, loopVars, argvVars, execVars, dispVars, acVars, lockVars, appVars>>

\* The engine invokes the same trampoline with the same arguments on a handler
\* registered by create_runtime / create_webview and on one registered by
\* async_create_runtime / async_create_webview.
CallbackOnBothPaths(obj, k, arg) ==
    /\ obj \in {"runtime", "webview"}
    /\ k \in IF obj = "runtime" THEN RuntimeCallbacks ELSE Callbacks
    /\ arg \in CallbackArgs(k)
    /\ Len(fired) < MaxCallbacks
    /\ fired' = Append(fired, [name |-> k, payload |-> arg])
    /\ LET plain == HostCall(obj, "plain", k, arg)
           async == HostCall(obj, "async", k, arg)
       IN /\ hostPlain' = IF plain = "none"
                          THEN hostPlain
                          ELSE Append(hostPlain, [name |-> plain, arg |-> arg])
          /\ asyncTrace' =
                asyncTrace
                  \o (IF Resolves(obj, k, arg)
                      THEN <<[name |-> "unpark", arg |-> arg]>>
                      ELSE <<>>)
                  \o (IF async = "none"
                      THEN <<>>
                      ELSE <<[name |-> async, arg |-> arg]>>)
    /\ pendingRt' = (pendingRt /\ ~(obj = "runtime" /\ Resolves(obj, k, arg)))
    /\ pendingWv' = (pendingWv /\ ~(obj = "webview" /\ Resolves(obj, k, arg)))
    /\ UNCHANGED <<binding, observed, chan>>
    /\ UNCHANGED <<rtVars, wvVars, mouseVars, parkVars, pageVars, asyncVars, stratVars,
                   subVars, loopVars, argvVars, execVars, dispVars, acVars, lockVars, appVars>>

\* ------------------------------- argument marshalling (lib.rs, wrapper.rs)
\* The two marshallers of the repository and the native entry points each one
\* feeds: Args::default() (lib.rs, runtime.rs) and get_args() (wrapper.rs).
Marshallers == {"Args::default", "get_args"}

EntryPoints(m) ==
    IF m = "Args::default"
    THEN {"execute_subprocess", "execute_runtime_inline", "execute_runtime_spawned"}
    ELSE {"execute_subprocess", "webview_run"}

\* args().map(CString::new / as_pstr).collect(): one owned null-terminated
\* string is allocated per process argument.
MarshalSnapshot ==
    /\ mpc = "start"
    /\ owned' = 1..Len(args)
    /\ mpc' = "snapshot"
    /\ UNCHANGED <<marshaller, entry, argv, passed, notArgv>>

\* .iter().map(|it| it.as_ptr()).collect(): the pointer array, one slot per
\* owned string, in order.
MarshalCollect ==
    /\ mpc = "snapshot"
    /\ argv' = [i \in 1..Len(args) |-> i]
    /\ mpc' = "collected"
    /\ UNCHANGED <<marshaller, entry, owned, passed, notArgv>>

\* The marshaller returns. Args::default() moves the strings into
\* Self { inner, raw }. get_args() returns the pointer Vec alone: the Vec<PSTR>
\* is a temporary of the statement and is dropped at its end, and Drop for PSTR
\* frees each string (CString::from_raw).
MarshalReturn ==
    /\ mpc = "collected"
    /\ owned' = IF marshaller = "get_args" THEN {} ELSE owned
    /\ mpc' = "held"
    /\ UNCHANGED <<marshaller, entry, argv, passed, notArgv>>

\* thread::spawn(move || ..): the Args value is moved into the closure of the
\* spawned thread, so the end of the block in Runtime::new does not drop it.
MarshalSpawn ==
    /\ mpc = "held"
    /\ entry = "execute_runtime_spawned"
    /\ mpc' = "moved"
    /\ UNCHANGED <<marshaller, entry, owned, argv, passed, notArgv>>

\* The native entry point is called with (args.size(), args.as_ptr()) or
\* (args.len(), args.as_ptr()).
MarshalCall ==
    /\ \/ mpc = "held" /\ entry # "execute_runtime_spawned"
       \/ mpc = "moved"
    /\ passed' = [count |-> Len(argv),
                  dangling |-> {i \in 1..Len(argv) : argv[i] \notin owned}]
    /\ mpc' = "calling"
    /\ UNCHANGED <<marshaller, entry, owned, argv, notArgv>>

\* The native call returns and the marshalled value goes out of scope: the
\* strings still owned are freed.
MarshalDrop ==
    /\ mpc = "calling"
    /\ owned' = {}
    /\ argv' = <<>>
    /\ mpc' = "done"
    /\ UNCHANGED <<marshaller, entry, passed, notArgv>>

\* ------------------------- Webview (src/webview/src/lib.rs, wrapper.rs)
\* Drop for WebviewWrapper runs when the last clone of the Arc<Webview> goes:
\* webview_exit(self.raw).
AfterRelease(h, hosts) == IF h = {} /\ hosts = {} /\ app = "open" THEN "exited" ELSE app

\* Webview::new is called: let (tx, rx) = oneshot::channel::<()>().
WebviewNewCall ==
    /\ wnew = "idle"
    /\ wnew' = "creating"
    /\ sender' = "local"
    /\ UNCHANGED <<appResult, app, runState, notifyCalls, wexit, snapshot, held, hostArcs, waits, notApp>>

\* WebviewWrapper::new(options, tx): Box::into_raw(Box::new(tx)) is handed to
\* create_webview as the callback context; a null result becomes None and
\* Webview::new returns CreateAppFailed through `?` (rx is dropped, the boxed
\* Sender is not). Otherwise the wrapper goes into Arc::new(Self { .. }).
WrapperNew(ptr) ==
    /\ wnew = "creating"
    /\ ptr \in {"null", "open"}
    /\ sender' = "boxed"
    /\ app' = ptr
    /\ IF ptr = "null"
       THEN /\ appResult' = "CreateAppFailed"
            /\ wnew' = "done"
            /\ held' = held
       ELSE /\ appResult' = appResult
            /\ wnew' = "spawning"
            /\ held' = {"task"}
    /\ UNCHANGED <<runState, notifyCalls, wexit, snapshot, hostArcs, waits, notApp>>

\* let this_ = this.clone();
\* thread::spawn(move || { this_.inner.run(); this_.notify.notify_waiters(); });
\* the task goes on to rx.await.
SpawnRun ==
    /\ wnew = "spawning"
    /\ runState' = "spawned"
    /\ held' = held \cup {"thread"}
    /\ wnew' = "awaiting"
    /\ UNCHANGED <<appResult, sender, app, notifyCalls, wexit, snapshot, hostArcs, waits, notApp>>

\* The spawned thread enters WebviewWrapper::run: webview_run(self.raw, ..).
RunEnter ==
    /\ runState = "spawned"
    /\ runState' = "running"
    /\ UNCHANGED <<wnew, appResult, sender, app, notifyCalls, wexit, snapshot, held, hostArcs, waits, notApp>>

\* The engine, inside its run call, reports the initialized context through
\* WebviewWrapper::callback: Box::from_raw(ctx as *mut Sender<()>).send(()).
WrapperCallback ==
    /\ runState = "running"
    /\ sender = "boxed"
    /\ sender' = "sent"
    /\ UNCHANGED <<wnew, appResult, app, runState, notifyCalls, wexit, snapshot, held, hostArcs, waits, notApp>>

\* webview_run returns: a non-zero code panics the spawned thread, which then
\* never reaches notify_waiters.
RunReturn(code) ==
    /\ runState = "running"
    /\ code \in {0, 1}
    /\ runState' = IF code = 0 THEN "returned" ELSE "panicked"
    /\ UNCHANGED <<wnew, appResult, sender, app, notifyCalls, wexit, snapshot, held, hostArcs, waits, notApp>>

\* this_.notify.notify_waiters(): wakes the Notified futures that exist; no
\* permit is stored for later ones.
NotifyWaiters ==
    /\ runState = "returned"
    /\ notifyCalls' = notifyCalls + 1
    /\ runState' = "notified"
    /\ UNCHANGED <<wnew, appResult, sender, app, wexit, snapshot, held, hostArcs, waits, notApp>>

\* The closure ends, or the panic unwinds it: this_ is dropped.
ThreadExit ==
    /\ runState \in {"notified", "panicked"}
    /\ runState' = "ended"
    /\ held' = held \ {"thread"}
    /\ app' = AfterRelease(held \ {"thread"}, hostArcs)
    /\ UNCHANGED <<wnew, appResult, sender, notifyCalls, wexit, snapshot, hostArcs, waits, notApp>>

\* rx.await.map_err(|_| CreateAppFailed)?; Ok(this): the receiver resolves once
\* a value has been sent, or with an error once the Sender has been dropped;
\* `this` moves to the caller, host thread t, or is dropped.
RxResolve(t) ==
    /\ wnew = "awaiting"
    /\ sender \in {"sent", "dropped"}
    /\ wnew' = "done"
    /\ held' = held \ {"task"}
    /\ IF sender = "sent"
       THEN /\ appResult' = "Ok"
            /\ hostArcs' = hostArcs \cup {t}
            /\ app' = app
       ELSE /\ appResult' = "CreateAppFailed"
            /\ hostArcs' = hostArcs
            /\ app' = AfterRelease(held \ {"task"}, hostArcs)
    /\ UNCHANGED <<sender, runState, notifyCalls, wexit, snapshot, waits, notApp>>

\* A host thread calls wait_exit on its Webview: self.notify.notified()
\* creates a Notified future.
WaitExitCall(t) ==
    /\ t \in hostArcs
    /\ wexit[t] \in {"none", "done"}
    /\ waits[t] < MaxCalls
    /\ waits' = [waits EXCEPT ![t] = @ + 1]
    /\ wexit' = [wexit EXCEPT ![t] = "waiting"]
    /\ snapshot' = [snapshot EXCEPT ![t] = notifyCalls]
    /\ UNCHANGED <<wnew, appResult, sender, app, runState, notifyCalls, held, hostArcs, notApp>>

\* The Notified future completes once notify_waiters has been called since
\* the future was created.
WaitExitResolve(t) ==
    /\ wexit[t] = "waiting"
    /\ notifyCalls > snapshot[t]
    /\ wexit' = [wexit EXCEPT ![t] = "done"]
    /\ UNCHANGED <<wnew, appResult, sender, app, runState, notifyCalls, snapshot, held, hostArcs, waits, notApp>>

\* Host thread t hands a clone of its Arc<Webview> to host thread u.
HostClone(t, u) ==
    /\ t \in hostArcs
    /\ u \notin hostArcs
    /\ hostArcs' = hostArcs \cup {u}
    /\ UNCHANGED <<wnew, appResult, sender, app, runState, notifyCalls, wexit, snapshot, held, waits, notApp>>

\* Host thread t drops its Arc<Webview>; its wait_exit no longer borrows it.
HostRelease(t) ==
    /\ t \in hostArcs
    /\ wexit[t] # "waiting"
    /\ hostArcs' = hostArcs \ {t}
    /\ app' = AfterRelease(held, hostArcs \ {t})
    /\ UNCHANGED <<wnew, appResult, sender, runState, notifyCalls, wexit, snapshot, held, waits, notApp>>

\* ------------------------------------------------- PageWrapper (wrapper.rs)
\* The callbacks of webview_sys::PageObserver registered by PageWrapper::new.
PageCallbacks ==
    {"on_state_change", "on_ime_rect", "on_frame", "on_title_change",
     "on_fullscreen_change", "on_bridge"}

NoPage ==
    [state |-> "none", raw |-> "null", ctx |-> "none", observer |-> "none",
     last |-> "none", dangling |-> FALSE]

\* PageWrapper::new up to the native call: ObserverWrapper::new(observer) builds
\* the wrapper in a local of this frame, and create_page(.., &observer) hands
\* the engine the address of that local as the callback context.
PageNewCreate(p, ptr) ==
    /\ page[p].state = "none"
    /\ \A q \in PageIds : q < p => page[q].state # "none"
    /\ page' = [page EXCEPT ![p] =
                  [state |-> "constructing", raw |-> ptr, ctx |-> "frame",
                   observer |-> "frame", last |-> "none", dangling |-> FALSE]]
    /\ UNCHANGED notPage

\* PageWrapper::new returns (Self { observer, options, raw }, rx): the wrapper
\* is moved out of the frame into the returned value; raw is not checked.
PageNewReturn(p) ==
    /\ page[p].state = "constructing"
    /\ page' = [page EXCEPT ![p].state = "live", ![p].observer = "field"]
    /\ UNCHANGED notPage

\* ObserverWrapper::on_*: the engine invokes a trampoline with the registered
\* context, which is dereferenced as &ObserverWrapper.
PageCallback(p, k) ==
    /\ page[p].raw = "open"
    /\ k \in PageCallbacks
    /\ page' = [page EXCEPT ![p].last = k,
                            ![p].dangling = (page[p].dangling
                                                \/ page[p].ctx # page[p].observer)]
    /\ UNCHANGED notPage

\* Drop for PageWrapper: page_exit(self.raw), ffi::free(url), then the fields
\* (the ObserverWrapper among them) are dropped.
PageDrop(p) ==
    /\ page[p].state = "live"
    /\ page' = [page EXCEPT ![p].state = "dropped",
                            ![p].raw = IF page[p].raw = "open" THEN "closed" ELSE "null",
                            ![p].observer = "dropped"]
    /\ UNCHANGED notPage

\* ------------------------------------------------------------ specification
InitRuntime ==
    /\ RUNTIME_RUNNING = FALSE
    /\ pc = [t \in Threads |-> "idle"]
    /\ cur = [t \in Threads |-> 0]
    /\ attr = [t \in Threads |-> FALSE]
    /\ lastDone = "none"
    /\ rt = [r \in RuntimeIds |-> NoRuntime]
    /\ quit_requested = FALSE

InitWebViews ==
    wv = [w \in WebViewIds |-> NoWebView]

\* The parts of the state a specification does not exercise.
IdleMouse ==
    /\ mouse_event = [w \in WebViewIds |-> <<0, 0>>]
    /\ dispatched = [fn |-> "none"]
    /\ history = <<>>

IdlePark ==
    /\ output = "None"
    /\ runing = FALSE
    /\ waker = FALSE
    /\ notified = FALSE
    /\ ppc = "none"
    /\ resolved = "none"
    /\ upc = "none"
    /\ deposited = "None"

IdlePage ==
    page = [p \in PageIds |-> NoPage]

IdleAsync ==
    /\ delivering = "none"
    /\ firstTerminal = "none"
    /\ created = "none"

IdleStrat ==
    /\ platform = "windows"
    /\ built = [t \in Threads |-> NoAttributes]

IdleSub ==
    /\ args = <<>>
    /\ tokio = FALSE
    /\ variant = "Runtime::execute_subprocess"
    /\ spc = "start"
    /\ marshalled = FALSE
    /\ nativeResult = "none"
    /\ ret = "none"

IdleLoop ==
    /\ kind = "none"
    /\ driven = FALSE
    /\ initialized = FALSE
    /\ polls = 0

IdleArgv ==
    /\ marshaller = "none"
    /\ entry = "none"
    /\ mpc = "none"
    /\ owned = {}
    /\ argv = <<>>
    /\ passed = [count |-> 0, dangling |-> {}]

\* The execute calls behind the Runtimes of the initial state: one inline call
\* for a constructed Runtime without a loop thread, one call on the spawned
\* thread once it is running.
InitExecutes ==
    executes = [r \in RuntimeIds |->
                  [inline |-> IF Live(r) /\ ~rt[r].multi THEN 1 ELSE 0,
                   spawned |-> IF rt[r].loop = "running" THEN 1 ELSE 0]]

IdleDispatch ==
    /\ rtPath = "none"
    /\ wvPath = "none"
    /\ rtStrategy = "none"
    /\ wvKind = "none"
    /\ rtHandler = NoHandler
    /\ wvHandler = NoHandler
    /\ nativeCb = [name |-> "none", payload |-> "none"]
    /\ hostCb = "none"

IdleOrder ==
    /\ binding = "none"
    /\ fired = <<>>
    /\ observed = <<>>
    /\ chan = <<>>

IdleAc ==
    acall = "none"

IdleTwin ==
    /\ hostPlain = <<>>
    /\ asyncTrace = <<>>
    /\ pendingRt = FALSE
    /\ pendingWv = FALSE

IdleLock ==
    /\ lpc = [t \in Threads |-> "idle"]
    /\ lop = [t \in Threads |-> [op |-> "none"]]
    /\ lev = [t \in Threads |-> <<0, 0>>]
    /\ eventLock = 0
    /\ rawLock = 0
    /\ calls = 0

IdleApp ==
    /\ wnew = "idle"
    /\ appResult = "none"
    /\ sender = "none"
    /\ app = "none"
    /\ runState = "none"
    /\ notifyCalls = 0
    /\ wexit = [t \in Threads |-> "none"]
    /\ snapshot = [t \in Threads |-> 0]
    /\ held = {}
    /\ hostArcs = {}
    /\ waits = [t \in Threads |-> 0]

\* A fresh process: no Runtime has been constructed.
Init ==
    /\ InitRuntime
    /\ InitWebViews
    /\ IdleMouse
    /\ IdlePark
    /\ IdlePage
    /\ IdleApp
    /\ IdleLock
    /\ IdleTwin
    /\ IdleAc
    /\ IdleOrder
    /\ IdleDispatch
    /\ InitExecutes
    /\ IdleArgv
    /\ IdleLoop
    /\ IdleSub
    /\ IdleStrat
    /\ IdleAsync

HostStep(t) ==
    \/ \E multi \in BOOLEAN : NewCall(t, multi)
    \/ NewLoad(t)
    \/ NewStore(t)
    \/ \E ptr \in {"null", "nonnull"} : NewCreate(t, ptr)
    \/ NewExecute(t)
    \/ \E r \in RuntimeIds : DropQuit(t, r)
    \/ DropClose(t)
    \/ DropFree(t)
    \/ DropClear(t)

EngineStep ==
    \/ \E r \in RuntimeIds : LoopEnter(r)
    \/ \E r \in RuntimeIds : LoopExit(r)

Next ==
    \/ \E t \in Threads : HostStep(t)
    \/ EngineStep

\* Host threads construct and drop Runtimes concurrently.
Spec == Init /\ [][Next]_vars

\* The same calls made one at a time: a host thread steps only while every
\* other host thread is between calls.
SeqNext ==
    \/ \E t \in Threads :
          /\ \A u \in Threads \ {t} : pc[u] = "idle"
          /\ HostStep(t)
    \/ EngineStep

SeqSpec == Init /\ [][SeqNext]_vars

\* The typed API on each platform: the host builds attributes for a strategy
\* and constructs and drops Runtimes with them.
StratInit ==
    /\ InitRuntime
    /\ InitWebViews
    /\ IdleMouse
    /\ IdlePark
    /\ IdlePage
    /\ IdleApp
    /\ IdleLock
    /\ IdleTwin
    /\ IdleAc
    /\ IdleOrder
    /\ IdleDispatch
    /\ InitExecutes
    /\ IdleArgv
    /\ IdleLoop
    /\ IdleSub
    /\ IdleAsync
    /\ platform \in Platforms
    /\ built = [t \in Threads |-> NoAttributes]

StratHostStep(t) ==
    \/ \E strategy \in Strategies : Build(t, strategy)
    \/ CreateRuntime(t)
    \/ NewLoad(t)
    \/ NewStore(t)
    \/ \E ptr \in {"null", "nonnull"} : NewCreate(t, ptr)
    \/ NewExecute(t)
    \/ \E r \in RuntimeIds : DropQuit(t, r)
    \/ DropClose(t)
    \/ DropFree(t)
    \/ DropClear(t)

StratNext ==
    \/ \E t \in Threads :
          /\ \A u \in Threads \ {t} : pc[u] = "idle"
          /\ StratHostStep(t)
    \/ EngineStep

StratSpec == StratInit /\ [][StratNext]_vars

\* Process start: any argument list, with or without a tokio runtime active,
\* calling either execute_subprocess.
SubInit ==
    /\ InitRuntime
    /\ InitWebViews
    /\ IdleMouse
    /\ IdlePark
    /\ IdlePage
    /\ IdleApp
    /\ IdleLock
    /\ IdleTwin
    /\ IdleAc
    /\ IdleOrder
    /\ IdleDispatch
    /\ InitExecutes
    /\ IdleArgv
    /\ IdleLoop
    /\ IdleAsync
    /\ IdleStrat
    /\ args \in ArgLists
    /\ tokio \in BOOLEAN
    /\ variant \in SubprocessVariants
    /\ spc = "start"
    /\ marshalled = FALSE
    /\ nativeResult = "none"
    /\ ret = "none"

SubNext ==
    \/ MainIsSubprocess
    \/ ExecCheckTokio
    \/ ExecMarshal
    \/ \E result \in {"success", "failure"} : NativeExecute(result)
    \/ ExecReturn
    \/ MainAfterExec
    \/ MainConstruct

SubSpec == SubInit /\ [][SubNext]_vars

\* A process in which one Runtime has been constructed: the host creates, uses
\* and drops WebViews, and drops the Runtime, while the engine fires callbacks.
WvInit ==
    /\ \E multi \in BOOLEAN, lp \in {"spawned", "running"} :
          rt = [r \in RuntimeIds |->
                  IF r = 1
                  THEN [state |-> "live", multi |-> multi, raw |-> "open",
                        handler |-> "boxed",
                        loop |-> IF multi THEN lp ELSE "none", quit |-> FALSE]
                  ELSE NoRuntime]
    /\ RUNTIME_RUNNING = TRUE
    /\ pc = [t \in Threads |-> "idle"]
    /\ cur = [t \in Threads |-> 0]
    /\ attr = [t \in Threads |-> FALSE]
    /\ lastDone = "Ok"
    /\ quit_requested = FALSE
    /\ InitWebViews
    /\ IdleMouse
    /\ IdlePark
    /\ IdlePage
    /\ IdleApp
    /\ IdleLock
    /\ IdleTwin
    /\ IdleAc
    /\ IdleOrder
    /\ IdleDispatch
    /\ InitExecutes
    /\ IdleArgv
    /\ IdleLoop
    /\ IdleSub
    /\ IdleStrat
    /\ IdleAsync

WvHostStep(t) ==
    \/ \E r \in RuntimeIds, ptr \in {"null", "nonnull"} : CreateWebView(t, r, ptr)
    \/ \E w \in WebViewIds, op \in WebViewOps : WebViewOp(t, w, op)
    \/ \E w \in WebViewIds : WebViewDropClose(t, w)
    \/ CloseWebViewReturn(t)
    \/ WebViewDropFree(t)
    \/ \E r \in RuntimeIds : DropQuit(t, r)
    \/ DropClose(t)
    \/ DropFree(t)
    \/ DropClear(t)

WvEngineStep ==
    \/ \E r \in RuntimeIds : LoopEnter(r)
    \/ \E r \in RuntimeIds : LoopExit(r)
    \/ \E w \in WebViewIds, k \in Callbacks : Trampoline(w, k)
    \/ \E w \in WebViewIds : TrampolineReturn(w)

WvNext ==
    \/ \E t \in Threads : WvHostStep(t)
    \/ WvEngineStep

WvSpec == WvInit /\ [][WvNext]_vars

\* A process with a live Runtime and live windowless WebViews: the host calls
\* WebView::mouse.
MouseInit ==
    /\ rt = [r \in RuntimeIds |->
               IF r = 1
               THEN [state |-> "live", multi |-> FALSE, raw |-> "open",
                     handler |-> "boxed", loop |-> "none", quit |-> FALSE]
               ELSE NoRuntime]
    /\ RUNTIME_RUNNING = TRUE
    /\ pc = [t \in Threads |-> "idle"]
    /\ cur = [t \in Threads |-> 0]
    /\ attr = [t \in Threads |-> FALSE]
    /\ lastDone = "Ok"
    /\ quit_requested = FALSE
    /\ wv = [w \in WebViewIds |->
               [state |-> "live", owner |-> 1, raw |-> "open", handler |-> "boxed",
                cb |-> "none", raced |-> FALSE, usedAfterRuntimeClose |-> FALSE]]
    /\ IdleMouse
    /\ IdlePark
    /\ IdlePage
    /\ IdleApp
    /\ IdleLock
    /\ IdleTwin
    /\ IdleAc
    /\ IdleOrder
    /\ IdleDispatch
    /\ InitExecutes
    /\ IdleArgv
    /\ IdleLoop
    /\ IdleSub
    /\ IdleStrat
    /\ IdleAsync

MouseNext ==
    \E w \in WebViewIds, a \in MouseActions : Mouse(w, a)

MouseSpec == MouseInit /\ [][MouseNext]_vars

\* The async layer: one Park/UnPark pair, the awaiting task polling on one
\* thread and the handler depositing on another.
ParkInit ==
    /\ InitRuntime
    /\ InitWebViews
    /\ IdleMouse
    /\ IdlePark
    /\ IdlePage
    /\ IdleApp
    /\ IdleLock
    /\ IdleTwin
    /\ IdleAc
    /\ IdleOrder
    /\ IdleDispatch
    /\ InitExecutes
    /\ IdleArgv
    /\ IdleLoop
    /\ IdleSub
    /\ IdleStrat
    /\ IdleAsync

ParkNext ==
    \/ ParkNew
    \/ PollTake
    \/ PollCheckRuning
    \/ PollRegister
    \/ ParkDrop
    \/ \E v \in Values : UnparkReplace(v)
    \/ UnparkWake
    \/ UnparkDrop

ParkSpec == ParkInit /\ [][ParkNext]_vars

\* The executor polls a task that is awaited for the first time or has been
\* woken; polls in between are possible but not owed.
ExecutorPolls ==
    /\ resolved = "unpolled" \/ notified
    /\ PollTake

\* UnPark::unpark runs to its end once entered: the drop of self follows wake.
UnparkFinishes ==
    /\ upc = "drop"
    /\ UnparkDrop

\* Scheduling: a started poll and a started unpark run to completion, and the
\* executor polls what it owes a poll. Nothing obliges the handler to fire or
\* the task to give the future up.
ParkFairness ==
    /\ WF_vars(ExecutorPolls)
    /\ WF_vars(PollCheckRuning)
    /\ WF_vars(PollRegister)
    /\ WF_vars(UnparkWake)
    /\ WF_vars(UnparkFinishes)

ParkLiveSpec == ParkInit /\ [][ParkNext]_vars /\ ParkFairness

\* async_create_webview: WebView::new has returned Ok with an
\* AsyncWebViewHandler holding the UnPark; the task awaits the Park while the
\* engine delivers state changes on its own thread.
AsyncWvNext ==
    \/ ParkNew
    \/ PollTake
    \/ PollCheckRuning
    \/ PollRegister
    \/ \E state \in WebViewStates : OnStateChange(state)
    \/ OnStateChangeUnpark
    \/ UnparkWake
    \/ UnparkFinishes
    \/ OnStateChangeReturn
    \/ AwaitReturn

AsyncWvSpec == ParkInit /\ [][AsyncWvNext]_vars

\* Driving the loop: no Runtime at all, or one Runtime just returned by
\* create_runtime or by Runtime::new inside async_create_runtime (the Park
\* then exists and has not been polled), built with any of the strategies.
LoopInit ==
    /\ kind \in Strategies \cup {"none"}
    /\ rt = [r \in RuntimeIds |->
               IF r = 1 /\ kind # "none"
               THEN [state |-> "live", multi |-> (kind = "MultiThreadRuntime"),
                     raw |-> "open", handler |-> "boxed",
                     loop |-> IF kind = "MultiThreadRuntime" THEN "spawned" ELSE "none",
                     quit |-> FALSE]
               ELSE NoRuntime]
    /\ RUNTIME_RUNNING = (kind # "none")
    /\ pc = [t \in Threads |-> "idle"]
    /\ cur = [t \in Threads |-> 0]
    /\ attr = [t \in Threads |-> FALSE]
    /\ lastDone = IF kind = "none" THEN "none" ELSE "Ok"
    /\ quit_requested = FALSE
    /\ InitWebViews
    /\ IdleMouse
    /\ \/ IdlePark
       \/ /\ kind # "none"
          /\ output = "None"
          /\ runing = TRUE
          /\ waker = FALSE
          /\ notified = FALSE
          /\ ppc = "idle"
          /\ resolved = "unpolled"
          /\ upc = "held"
          /\ deposited = "None"
    /\ IdlePage
    /\ IdleApp
    /\ IdleLock
    /\ IdleTwin
    /\ IdleAc
    /\ IdleOrder
    /\ IdleDispatch
    /\ InitExecutes
    /\ IdleArgv
    /\ IdleAsync
    /\ IdleStrat
    /\ IdleSub
    /\ driven = FALSE
    /\ initialized = FALSE
    /\ polls = 0

LoopHostStep(t) ==
    \/ BlockRunEnter(t)
    \/ BlockRunReturn(t)
    \/ Quit(t)
    \/ PollEnter(t)
    \/ PollReturn(t)
    \/ ~BorrowedByLoopCall /\ DropQuit(t, 1)
    \/ DropClose(t)
    \/ DropFree(t)
    \/ DropClear(t)

LoopEngineStep ==
    \/ LoopEnter(1)
    \/ LoopExit(1)
    \/ ContextInitialized
    \/ ContextInitializedUnpark
    \/ UnparkWake
    \/ UnparkFinishes
    \/ ContextInitializedReturn

LoopTaskStep ==
    \/ PollTake
    \/ PollCheckRuning
    \/ PollRegister
    \/ AwaitRuntimeReturn

LoopNext ==
    \/ \E t \in Threads : LoopHostStep(t)
    \/ LoopEngineStep
    \/ LoopTaskStep

LoopSpec == LoopInit /\ [][LoopNext]_vars

\* Construction with the engine at work: the host builds attributes for one
\* strategy, constructs the Runtime, drives its loop and creates WebViews,
\* while the engine delivers callbacks.
CtorInit ==
    /\ InitRuntime
    /\ InitWebViews
    /\ IdleMouse
    /\ IdlePark
    /\ IdlePage
    /\ IdleApp
    /\ IdleLock
    /\ IdleTwin
    /\ IdleAc
    /\ IdleOrder
    /\ IdleDispatch
    /\ InitExecutes
    /\ IdleArgv
    /\ IdleAsync
    /\ IdleStrat
    /\ IdleSub
    /\ kind \in Strategies
    /\ driven = FALSE
    /\ initialized = FALSE
    /\ polls = 0

CtorHostStep(t) ==
    \/ Build(t, kind)
    \/ CreateRuntime(t)
    \/ NewLoad(t)
    \/ NewStore(t)
    \/ \E ptr \in {"null", "nonnull"} : NewCreate(t, ptr)
    \/ NewExecute(t)
    \/ BlockRunEnter(t)
    \/ BlockRunReturn(t)
    \/ Quit(t)
    \/ PollEnter(t)
    \/ PollReturn(t)
    \/ WebViewNewCall(t, 1)
    \/ \E ptr \in {"null", "nonnull"} : WebViewNewReturn(t, ptr)

CtorEngineStep ==
    \/ LoopEnter(1)
    \/ ContextInitialized
    \/ ContextInitializedReturn
    \/ \E w \in WebViewIds, k \in Callbacks : Trampoline(w, k)
    \/ \E w \in WebViewIds : TrampolineReturn(w)

CtorNext ==
    \/ \E t \in Threads :
          /\ \A u \in Threads \ {t} : pc[u] \in {"idle", "block_run"}
          /\ CtorHostStep(t)
    \/ CtorEngineStep

CtorSpec == CtorInit /\ [][CtorNext]_vars

\* One marshalling of the process arguments for one native entry point.
MarshalInit ==
    /\ InitRuntime
    /\ InitWebViews
    /\ IdleMouse
    /\ IdlePark
    /\ IdlePage
    /\ IdleApp
    /\ IdleLock
    /\ IdleTwin
    /\ IdleAc
    /\ IdleOrder
    /\ IdleDispatch
    /\ InitExecutes
    /\ IdleLoop
    /\ IdleAsync
    /\ IdleStrat
    /\ args \in ArgLists
    /\ tokio = FALSE
    /\ variant = "Runtime::execute_subprocess"
    /\ spc = "start"
    /\ marshalled = FALSE
    /\ nativeResult = "none"
    /\ ret = "none"
    /\ marshaller \in Marshallers
    /\ entry \in EntryPoints(marshaller)
    /\ mpc = "start"
    /\ owned = {}
    /\ argv = <<>>
    /\ passed = [count |-> 0, dangling |-> {}]

MarshalNext ==
    \/ MarshalSnapshot
    \/ MarshalCollect
    \/ MarshalReturn
    \/ MarshalSpawn
    \/ MarshalCall
    \/ MarshalDrop

MarshalSpec == MarshalInit /\ [][MarshalNext]_vars

\* A Runtime and a WebView of any kind, created either way, with the engine
\* making callbacks on both.
DispatchInit ==
    /\ InitRuntime
    /\ InitWebViews
    /\ IdleMouse
    /\ IdlePark
    /\ IdlePage
    /\ IdleApp
    /\ IdleLock
    /\ IdleTwin
    /\ IdleAc
    /\ IdleOrder
    /\ IdleArgv
    /\ InitExecutes
    /\ IdleLoop
    /\ IdleSub
    /\ IdleStrat
    /\ IdleAsync
    /\ rtPath \in CreationPaths
    /\ wvPath \in CreationPaths
    /\ rtStrategy \in Strategies
    /\ wvKind \in WebViewKinds
    /\ rtHandler = RegisteredRuntimeHandler(rtPath, rtStrategy)
    /\ wvHandler = RegisteredWebViewHandler(wvPath, wvKind)
    /\ nativeCb = [name |-> "none", payload |-> "none"]
    /\ hostCb = "none"

DispatchNext ==
    \/ \E k \in RuntimeCallbacks : NativeRuntimeCallback(k)
    \/ \E k \in Callbacks, payload \in Payloads \cup {"none"} : NativeWebViewCallback(k, payload)

DispatchSpec == DispatchInit /\ [][DispatchNext]_vars

\* The tokio-based crate: pages are created on a running app, receive
\* callbacks and are dropped.
PageInit ==
    /\ InitRuntime
    /\ InitWebViews
    /\ IdleMouse
    /\ IdlePark
    /\ IdlePage
    /\ IdleApp
    /\ IdleLock
    /\ IdleTwin
    /\ IdleAc
    /\ IdleOrder
    /\ IdleDispatch
    /\ InitExecutes
    /\ IdleArgv
    /\ IdleLoop
    /\ IdleSub
    /\ IdleStrat
    /\ IdleAsync

PageNext ==
    \/ \E p \in PageIds, ptr \in {"null", "open"} : PageNewCreate(p, ptr)
    \/ \E p \in PageIds : PageNewReturn(p)
    \/ \E p \in PageIds, k \in PageCallbacks : PageCallback(p, k)
    \/ \E p \in PageIds : PageDrop(p)

PageSpec == PageInit /\ [][PageNext]_vars

\* ------------------------------------------------------------------ claims
\* A call of Runtime::new that is past the flag check and has not returned.
PastCheck(t) == pc[t] \in {"new_store", "new_create", "new_execute"}

\* C1 (checked under SeqSpec, calls made one at a time): while a constructed
\* Runtime has not been dropped, a construction attempt returns
\* RuntimeAlreadyExists at the flag check; a completed drop leaves the flag
\* clear, and the construction attempt that follows a completed drop gets past
\* the flag check instead of being rejected.
C1_SingleRuntimeSequential ==
    [][\A t \in Threads :
          /\ (pc[t] = "new_load" /\ pc'[t] # "new_load" /\ \E r \in RuntimeIds : Live(r))
                => (pc'[t] = "idle" /\ lastDone' = "RuntimeAlreadyExists")
          /\ (pc[t] = "drop_clear" /\ pc'[t] = "idle") => ~RUNTIME_RUNNING'
          /\ (pc[t] = "new_load" /\ pc'[t] # "new_load" /\ lastDone = "drop")
                => (pc'[t] = "new_store" /\ lastDone' = lastDone)
      ]_vars

\* C1 witness: the first Runtime was dropped, the next construction succeeded,
\* and a further attempt has just been rejected while that Runtime is live.
C1_Witness ==
    /\ rt[1].state = "dropped"
    /\ rt[2].state = "live"
    /\ lastDone = "RuntimeAlreadyExists"

\* C2: of the calls of Runtime::new in progress, at most one is past the flag
\* check, and never while a constructed Runtime is still live.
C2_AtMostOnePastCheck ==
    Cardinality({t \in Threads : PastCheck(t)})
        + Cardinality({r \in RuntimeIds : Live(r)}) <= 1

\* C3: once a construction has failed with FailedToCreateRuntime and nothing
\* else is in progress or alive, the process-wide flag is clear.
C3_FailedCreateLeavesFlagClear ==
    (/\ lastDone = "FailedToCreateRuntime"
     /\ \A t \in Threads : pc[t] = "idle"
     /\ \A r \in RuntimeIds : rt[r].state \in {"none", "dropped"})
        => ~RUNTIME_RUNNING

\* The steps of one Runtime's drop happen in the order quit (iff multi-threaded),
\* close_runtime, free the handler, clear the flag.
DropOrder ==
    \A t \in Threads :
        /\ pc[t] = "drop_close" =>
              /\ rt[cur[t]].quit = rt[cur[t]].multi
              /\ rt[cur[t]].raw = "open"
              /\ rt[cur[t]].handler = "boxed"
        /\ pc[t] = "drop_free" =>
              /\ rt[cur[t]].quit = rt[cur[t]].multi
              /\ rt[cur[t]].raw = "closed"
              /\ rt[cur[t]].handler = "boxed"
        /\ pc[t] = "drop_clear" =>
              /\ rt[cur[t]].quit = rt[cur[t]].multi
              /\ rt[cur[t]].raw = "closed"
              /\ rt[cur[t]].handler = "freed"

\* The flag is clear only while no native instance is unclosed.
FlagCoversInstances ==
    ~RUNTIME_RUNNING => \A r \in RuntimeIds : rt[r].raw # "open"

\* C4: a Runtime's drop performs quit (iff multi-threaded), close_runtime, the
\* freeing of the handler and the clearing of the flag in this order, and the
\* flag is never clear while a native instance is unclosed.
C4_TeardownOrder ==
    /\ DropOrder
    /\ FlagCoversInstances

\* C5: once close_runtime has been called for a Runtime, the thread spawned
\* for its run loop is not inside the native execute call for that instance.
C5_LoopStoppedBeforeClose ==
    \A r \in RuntimeIds : rt[r].raw = "closed" => rt[r].loop # "running"

\* C7 (checked under WvSpec): once a WebView's native close has returned, and
\* in particular once its drop has returned, no callback of that WebView is
\* being delivered to the host handler.
C7_NoCallbackAfterDrop ==
    \A w \in WebViewIds :
        (wv[w].state = "dropped" \/ wv[w].raw = "closed") => wv[w].cb = "none"

\* C7 witness: a WebView whose drop began while a callback was in flight has
\* been dropped.
C7_Witness ==
    \E w \in WebViewIds : wv[w].state = "dropped" /\ wv[w].raced

\* C8 (checked under WvSpec): no native call is made with a WebView's handle
\* after close_runtime has been called for the Runtime that owns it.
C8_NoUseAfterRuntimeClose ==
    \A w \in WebViewIds : ~wv[w].usedAfterRuntimeClose

\* The context registered for a Runtime is the address of its boxed handler.
RuntimeContextValid ==
    \A r \in RuntimeIds : rt[r].raw = "open" => rt[r].handler = "boxed"

\* The context registered for a WebView is the address of its boxed handler.
WebViewContextValid ==
    \A w \in WebViewIds : wv[w].raw \in {"open", "closing"} => wv[w].handler = "boxed"

\* The context registered for a Page is the address its ObserverWrapper is at.
PageContextValid ==
    \A p \in PageIds : page[p].raw = "open" => page[p].ctx = page[p].observer

\* C6 (checked under PageSpec): while a native object is unclosed, the context
\* address registered for it is the address its handler lives at: the handler
\* has been neither freed nor moved.
C6_ContextValid ==
    /\ RuntimeContextValid
    /\ WebViewContextValid
    /\ PageContextValid

\* The position of the latest Move or Click-with-position among the recorded
\* calls h on WebView w, (0, 0) if there is none.
RECURSIVE LastExplicit(_, _)
LastExplicit(h, w) ==
    IF h = <<>>
    THEN <<0, 0>>
    ELSE LET e == h[Len(h)]
         IN IF e.w = w /\ e.kind \in {"Move", "Click"} /\ e.pos # NoPosition
            THEN e.pos
            ELSE LastExplicit(SubSeq(h, 1, Len(h) - 1), w)

\* C9 (checked under MouseSpec): the native event of the latest mouse() call
\* carries the position the call names, and for a Click without a position the
\* position of the latest earlier Move or Click-with-position on that WebView,
\* (0, 0) if there was none.
C9_ClickPositionFallback ==
    history # <<>> =>
        LET e == history[Len(history)]
            before == SubSeq(history, 1, Len(history) - 1)
        IN /\ e.kind = "Move" =>
                /\ dispatched.fn = "webview_mouse_move"
                /\ dispatched.w = e.w
                /\ <<dispatched.x, dispatched.y>> = e.pos
           /\ e.kind = "Click" =>
                /\ dispatched.fn = "webview_mouse_click"
                /\ dispatched.w = e.w
                /\ <<dispatched.x, dispatched.y>> =
                      IF e.pos = NoPosition THEN LastExplicit(before, e.w) ELSE e.pos

\* C9 witness: Move(10, 20) then Click(_, _, None) dispatched a click at (10, 20).
C9_Witness ==
    /\ Len(history) = 2
    /\ history[1] = [w |-> 1, kind |-> "Move", pos |-> <<10, 20>>]
    /\ history[2] = [w |-> 1, kind |-> "Click", pos |-> NoPosition]
    /\ dispatched.fn = "webview_mouse_click"
    /\ dispatched.x = 10
    /\ dispatched.y = 20

\* C10 (checked under ParkSpec): once the producer has deposited v, a resolved
\* Park has resolved to Some(v), never to None.
C10_DepositResolvesToSome ==
    (deposited # "None" /\ resolved \in Values \cup {"ReadyNone"}) => resolved = deposited

\* The awaiting task is done with the Park: it resolved, or the future was dropped.
ParkSettled ==
    resolved \in Values \cup {"ReadyNone"} \/ ppc = "dropped"

\* C11 (checked under ParkLiveSpec): once the producer has deposited a value,
\* whatever the waiter's poll was doing at that moment, the waiter is
\* eventually polled again and resolves; it does not stay pending forever.
C11_DepositEventuallyResolves ==
    (deposited # "None") ~> ParkSettled

\* C12 (checked under ParkLiveSpec): once the UnPark has been dropped without
\* a deposit, a waiter on the Park is woken and eventually resolves to None.
C12_ProducerDropEventuallyResolves ==
    (upc = "done" /\ deposited = "None") ~> (resolved = "ReadyNone" \/ ppc = "dropped")

\* C13 (checked under AsyncWvSpec): async_create_webview returns Ok only if
\* the first terminal state delivered was Loaded, FailedToCreateWebView only if
\* it was LoadError, nothing before a terminal state was delivered, and the one
\* value deposited is that of the first terminal state.
C13_FirstTerminalDecides ==
    /\ created = "Ok" => firstTerminal = "Loaded"
    /\ created = "FailedToCreateWebView" => firstTerminal = "LoadError"
    /\ deposited = "true" => firstTerminal = "Loaded"
    /\ deposited = "false" => firstTerminal = "LoadError"

\* C14 (checked under StratSpec): on macOS, attributes built for the
\* multi-threaded strategy carry external_message_pump = true and
\* multi_threaded_message_loop = false, and no Runtime has a spawned loop
\* thread or issues quit in its drop.
C14_MacosSelectsExternalPump ==
    platform = "macos" =>
        /\ \A t \in Threads :
              built[t].strategy = "MultiThreadRuntime" =>
                  /\ built[t].external_message_pump
                  /\ ~built[t].multi_threaded_message_loop
        /\ \A r \in RuntimeIds : rt[r].loop = "none" /\ ~rt[r].quit

C16_TokioAbortsBeforeNative ==
    tokio => (~marshalled /\ nativeResult = "none")

\* C17 (checked under SubSpec): when the native executor fails,
\* execute_subprocess returns a failure indication to its caller; it does not
\* panic and does not report success.
C17_FailureReturnsToCaller ==
    (nativeResult = "failure" /\ spc \notin {"returned"}) => ret = "false"

\* C18: a main-thread Runtime shared by several threads has at most one thread
\* inside block_run at a time; a second block_run does not enter the native
\* run loop while the first has not returned.
InsideBlockRun == {t \in Threads : pc[t] = "block_run"}

C18_BlockRunExclusive ==
    Cardinality(InsideBlockRun) <= 1

\* C19: for a Runtime that is not multi-threaded, on_context_initialized is not
\* delivered, and async_create_runtime does not resolve to Ok, before the host
\* has driven the loop (block_run or poll) after construction.
C19_ReadyRequiresDrivenLoop ==
    (kind \in {"MainThreadRuntime", "MessagePumpRuntime"} /\ ~driven) =>
        /\ ~initialized
        /\ delivering = "none"
        /\ created # "Ok"

\* A multi-threaded Runtime has become ready, and async_create_runtime has
\* resolved to Ok, with no host call driving the loop.
C19_Witness ==
    /\ kind = "MultiThreadRuntime"
    /\ ~driven
    /\ initialized
    /\ created = "Ok"

\* C20: a poll made while no Runtime is active changes nothing of the binding
\* (running flag, Runtime and WebView records, Park, results) and no host
\* callback begins while no Runtime is active.
PollStep ==
    \E t \in Threads : pc[t] # pc'[t] /\ "polling" \in {pc[t], pc'[t]}

C20_PollWithoutRuntimeIsNoOp ==
    [][NoRuntimeActive =>
         /\ PollStep => UNCHANGED <<RUNTIME_RUNNING, cur, attr, lastDone, rt,
                                    quit_requested, kind, initialized, wvVars,
                                    parkVars, pageVars, asyncVars>>
         /\ delivering = "none" => delivering' = "none"]_vars

\* A poll made in a process that never constructed a Runtime has returned.
C20_Witness ==
    /\ kind = "none"
    /\ polls > 0
    /\ \A t \in Threads : pc[t] = "idle"
    /\ ~initialized
    /\ ~RUNTIME_RUNNING

C22_ContextInitializedAtMostOnce ==
    [][(/\ delivering = "on_context_initialized"
        /\ <<initialized, delivering>>' # <<initialized, delivering>>)
          => ~initialized]_vars

\* The async wrapper has resolved the pending creation and forwarded to the
\* host handler, and the Runtime has since been dropped.
C22_Witness ==
    /\ initialized
    /\ delivering = "none"
    /\ upc = "done"
    /\ created = "Ok"
    /\ rt[1].state = "dropped"

\* C23: every Runtime, WebView and Page that exists after construction holds a
\* non-null native handle; a null result of the native create call never
\* yields a live binding object.
RuntimeHandleNonNull ==
    \A r \in RuntimeIds : Live(r) => rt[r].raw # "null"

WebViewHandleNonNull ==
    \A w \in WebViewIds : wv[w].state \in {"live", "dropping"} => wv[w].raw # "null"

PageHandleNonNull ==
    \A p \in PageIds : page[p].state = "live" => page[p].raw # "null"

C23_NonNullHandle ==
    /\ RuntimeHandleNonNull
    /\ WebViewHandleNonNull
    /\ PageHandleNonNull

\* C24: when the (count, pointer-array) pair is passed to a native entry point,
\* every pointer refers to an owned argument string that has not been freed,
\* and count is the number of process arguments.
C24_ArgumentsAliveAtCall ==
    mpc = "calling" =>
        /\ passed.dangling = {}
        /\ passed.count = Len(args)

\* C25: the native close of a constructed Runtime or WebView is called once,
\* at drop, and the handle is passed to no native call afterwards: close
\* happens only during the drop, a closed handle stays closed, and the spawned
\* thread makes its execute_runtime(raw) call only on an open handle.
C25_CloseOnceThenUnused ==
    [][/\ \A r \in RuntimeIds :
            /\ (rt[r].raw = "open" /\ rt'[r].raw = "closed") => rt[r].state = "dropping"
            /\ rt[r].raw = "closed" => rt'[r].raw = "closed"
            /\ (rt[r].loop = "spawned" /\ rt'[r].loop = "running") => rt[r].raw = "open"
       /\ \A w \in WebViewIds :
            /\ wv[w].raw = "closed" => wv'[w].raw = "closed"
            /\ wv[w].raw = "closed" =>
                  wv'[w].usedAfterRuntimeClose = wv[w].usedAfterRuntimeClose]_vars

\* C26: built attributes carry one of three flag pairs (multi-threaded loop,
\* external pump): (true, false) for multi-thread, (false, false) for
\* main-thread, (false, true) for message-pump, never (true, true); and a
\* Runtime's drop issues quit exactly if its construction spawned the loop
\* thread.
FlagPair(a) == <<a.multi_threaded_message_loop, a.external_message_pump>>

C26_StrategyFlagsFixed ==
    /\ \A t \in Threads :
          /\ built[t].strategy = "MultiThreadRuntime" => FlagPair(built[t]) = <<TRUE, FALSE>>
          /\ built[t].strategy = "MainThreadRuntime" => FlagPair(built[t]) = <<FALSE, FALSE>>
          /\ built[t].strategy = "MessagePumpRuntime" => FlagPair(built[t]) = <<FALSE, TRUE>>
          /\ FlagPair(built[t]) # <<TRUE, TRUE>>
    /\ \A r \in RuntimeIds :
          rt[r].state \in {"dropping", "dropped"} => (rt[r].quit <=> rt[r].loop # "none")

\* Both kinds of Runtime have been dropped: one that spawned its loop thread
\* and issued quit, one that did neither.
C26_Witness ==
    /\ rt[1].state = "dropped" /\ rt[1].quit /\ rt[1].loop # "none"
    /\ rt[2].state = "dropped" /\ ~rt[2].quit /\ rt[2].loop = "none"
    /\ \E t \in Threads : built[t].strategy = "MessagePumpRuntime"

\* C27: a successful construction makes the native execute call once, after
\* create returned non-null: on the spawned thread if the multi-threaded loop
\* was selected, inline before Runtime::new returns otherwise; a construction
\* that fails makes none.
C27_ExecuteOncePerConstruction ==
    \A r \in RuntimeIds :
        /\ executes[r].inline + executes[r].spawned <= 1
        /\ rt[r].multi => executes[r].inline = 0
        /\ ~rt[r].multi => executes[r].spawned = 0
        /\ rt[r].state \in {"none", "constructing"} =>
              executes[r].inline = 0 /\ executes[r].spawned = 0
        /\ executes[r].inline + executes[r].spawned > 0 => rt[r].raw # "null"
        /\ (Live(r) /\ ~rt[r].multi) => executes[r].inline = 1
        /\ executes[r].spawned = 1 <=> rt[r].loop \in {"running", "exited"}

\* Both ways have happened: the first Runtime's execute call was made on its
\* spawned thread, the second one's inline.
C27_Witness ==
    /\ rt[1].multi /\ executes[1].spawned = 1
    /\ rt[2].state = "live" /\ ~rt[2].multi /\ executes[2].inline = 1

\* C28: a native schedule-pump-work callback reaches the host's
\* on_schedule_message_pump_work exactly if the host's handler was registered
\* through the message-pump strategy, on the plain and on the async path; in
\* every other case no host method is invoked.
C28_SchedulePumpWorkDispatch ==
    nativeCb.name = "on_schedule_message_pump_work" =>
        /\ rtStrategy = "MessagePumpRuntime" => hostCb = "on_schedule_message_pump_work"
        /\ rtStrategy # "MessagePumpRuntime" => hostCb = "none"

\* The callback was made on a main-thread Runtime created through the async
\* path, whose wrapper is registered as a pump handler, and was dropped.
C28_Witness ==
    /\ nativeCb.name = "on_schedule_message_pump_work"
    /\ rtPath = "async"
    /\ rtStrategy = "MainThreadRuntime"
    /\ rtHandler.variant = "MessagePumpRuntimeHandler"
    /\ hostCb = "none"

\* C29 as stated: on_frame and on_ime_rect reach the host exactly for a
\* windowless WebView, and on_state_change, on_title_change,
\* on_fullscreen_change and on_message are delivered for both kinds.
OffscreenOnlyForWindowless ==
    nativeCb.name \in {"on_frame", "on_ime_rect"} =>
        /\ wvKind = "WindowlessRenderWebView" => hostCb = nativeCb.name
        /\ wvKind # "WindowlessRenderWebView" => hostCb = "none"

C29_OffscreenOnlyCallbacks ==
    /\ OffscreenOnlyForWindowless
    /\ nativeCb.name \in {"on_state_change", "on_title_change",
                          "on_fullscreen_change", "on_message"} =>
          hostCb = nativeCb.name

\* C29 amended: on_title_change and on_message are delivered for both kinds
\* when the string the engine passes is non-null and valid UTF-8, and dropped
\* for both kinds otherwise.
C29_OffscreenOnlyCallbacks_Amended ==
    /\ OffscreenOnlyForWindowless
    /\ nativeCb.name \in {"on_state_change", "on_fullscreen_change"} =>
          hostCb = nativeCb.name
    /\ nativeCb.name \in {"on_title_change", "on_message"} =>
          /\ nativeCb.payload = "valid" => hostCb = nativeCb.name
          /\ nativeCb.payload # "valid" => hostCb = "none"

\* An on_frame callback was made on a native-window WebView created through
\* the async path, whose wrapper is registered as a windowless handler, and was
\* dropped.
C29_Witness ==
    /\ nativeCb.name = "on_frame"
    /\ wvPath = "async"
    /\ wvKind = "NativeWindowWebView"
    /\ wvHandler.variant = "WindowlessRenderWebViewHandler"
    /\ hostCb = "none"

\* C30: a mouse() call changes the cached cursor position of its WebView only
\* if it is Move(p) or Click(_, _, Some(p)), and then to p; Wheel(d) and
\* Click(_, _, None) leave every cache unchanged; Wheel(d) dispatches a wheel
\* event located at the cached position with delta d.
C30_CursorCacheFrame ==
    [][history' # history =>
         LET e == history'[Len(history')]
             sets == e.kind = "Move" \/ (e.kind = "Click" /\ e.pos # NoPosition)
         IN /\ sets => mouse_event'[e.w] = e.pos
            /\ ~sets => mouse_event'[e.w] = mouse_event[e.w]
            /\ \A w \in WebViewIds \ {e.w} : mouse_event'[w] = mouse_event[w]
            /\ e.kind = "Wheel" =>
                  /\ dispatched'.fn = "webview_mouse_wheel"
                  /\ dispatched'.w = e.w
                  /\ <<dispatched'.x, dispatched'.y>> = mouse_event[e.w]
                  /\ <<dispatched'.dx, dispatched'.dy>> = e.pos]_vars

\* Move(10, 20) then Wheel(30, 40): the wheel event was dispatched at (10, 20)
\* with delta (30, 40) and the cache still holds (10, 20).
C30_Witness ==
    /\ Len(history) = 2
    /\ history[1] = [w |-> 1, kind |-> "Move", pos |-> <<10, 20>>]
    /\ history[2] = [w |-> 1, kind |-> "Wheel", pos |-> <<30, 40>>]
    /\ dispatched = [fn |-> "webview_mouse_wheel", w |-> 1, x |-> 10, y |-> 20,
                     dx |-> 30, dy |-> 40]
    /\ mouse_event[1] = <<10, 20>>

\* ---------------------------------------------------------------- teardown
\* A process with a live Runtime and MaxWebViews live WebViews: host threads
\* move the cursor over them and drop them, the engine fires callbacks.
TeardownMoves == [kind : {"Move"}, pos : Positions]

TeardownHostStep(t) ==
    \/ \E w \in WebViewIds : WebViewDropClose(t, w)
    \/ CloseWebViewReturn(t)
    \/ WebViewDropFree(t)

TeardownNext ==
    \/ \E t \in Threads : TeardownHostStep(t)
    \/ \E w \in WebViewIds, a \in TeardownMoves : Mouse(w, a)
    \/ \E w \in WebViewIds : Trampoline(w, "on_state_change")
    \/ \E w \in WebViewIds : TrampolineReturn(w)

TeardownSpec == MouseInit /\ [][TeardownNext]_vars

\* Thread t takes a step of Drop for WebView.
WebViewDropStep(t) ==
    /\ pc'[t] # pc[t]
    /\ \/ pc[t] \in {"wv_drop_closing", "wv_drop_free"}
       \/ pc'[t] \in {"wv_drop_closing", "wv_drop_free"}

\* C31: a step of one WebView's drop leaves every sibling WebView (handle,
\* handler, cursor cache), the Runtime and the running flag unchanged; a
\* WebView's handle is closed and its handler freed only by a drop of that
\* WebView.
C31_TeardownIndependent ==
    [][/\ \A t \in Threads :
             WebViewDropStep(t) =>
                LET w == IF cur[t] # 0 THEN cur[t] ELSE cur'[t]
                IN /\ \A s \in WebViewIds \ {w} :
                         /\ wv'[s] = wv[s]
                         /\ mouse_event'[s] = mouse_event[s]
                   /\ rt' = rt
                   /\ RUNTIME_RUNNING' = RUNTIME_RUNNING
       /\ \A w \in WebViewIds :
             /\ (wv[w].raw = "open" /\ wv'[w].raw # "open") =>
                   \E t \in Threads :
                      pc[t] = "idle" /\ pc'[t] = "wv_drop_closing" /\ cur'[t] = w
             /\ (wv[w].handler = "boxed" /\ wv'[w].handler # "boxed") =>
                   \E t \in Threads : pc[t] = "wv_drop_free" /\ cur[t] = w]_vars

\* WebView 1 has been dropped after the cursor moved over WebView 2, which is
\* still live with its handle, handler and cursor cache, as is the Runtime.
C31_Witness ==
    /\ wv[1].state = "dropped" /\ wv[1].raw = "closed" /\ wv[1].handler = "freed"
    /\ wv[2].state = "live" /\ wv[2].raw = "open" /\ wv[2].handler = "boxed"
    /\ mouse_event[2] = <<10, 20>>
    /\ rt[1].raw = "open" /\ rt[1].handler = "boxed"
    /\ RUNTIME_RUNNING

\* ----------------------------------------------------------- callback order
\* One object with its trampolines registered: the engine fires callbacks.
OrderInit ==
    /\ InitRuntime
    /\ InitWebViews
    /\ IdleMouse
    /\ IdlePark
    /\ IdlePage
    /\ IdleApp
    /\ IdleLock
    /\ IdleTwin
    /\ IdleAc
    /\ IdleDispatch
    /\ InitExecutes
    /\ IdleArgv
    /\ IdleLoop
    /\ IdleSub
    /\ IdleStrat
    /\ IdleAsync
    /\ binding \in Bindings
    /\ fired = <<>>
    /\ observed = <<>>
    /\ chan = <<>>

OrderNext ==
    \/ \E k \in Callbacks, payload \in Payloads \cup {"none"} : EngineFires(k, payload)
    \/ ChannelRecv

OrderSpec == OrderInit /\ [][OrderNext]_vars

\* The invocations of f from index i on that are not title/message callbacks
\* with a null or non-UTF-8 string, each tagged with its index.
RECURSIVE Forwarded(_, _)
Forwarded(f, i) ==
    IF i > Len(f)
    THEN <<>>
    ELSE IF f[i].name \in {"on_title_change", "on_message"} /\ f[i].payload # "valid"
         THEN Forwarded(f, i + 1)
         ELSE <<[name |-> f[i].name, n |-> i]>> \o Forwarded(f, i + 1)

\* C32: the calls the host handler has received are exactly the engine's
\* invocations, in order, minus title/message callbacks whose string is null
\* or not UTF-8.
C32_CallbackOrderPreserved ==
    observed = Forwarded(fired, 1)

\* The same statement for the trampolines of webview.rs alone.
CallbackOrderPreserved_WebView ==
    binding = "WebView" => observed = Forwarded(fired, 1)

\* ---------------------------------------------------------- async creation
\* The task has entered async_create_runtime or async_create_webview:
\* Park::new() has run. For async_create_runtime the task is at the flag check
\* of Runtime::new, with or without a Runtime already live; for
\* async_create_webview a Runtime is live and WebView::new is about to be
\* called. The engine has initialized the context of a Runtime that is live.
AsyncCreateInit ==
    /\ acall \in AsyncCalls
    /\ kind \in Strategies
    /\ \E pre \in BOOLEAN :
          /\ acall = "async_create_webview" => pre
          /\ rt = [r \in RuntimeIds |->
                     IF r = 1 /\ pre
                     THEN [state |-> "live", multi |-> (kind = "MultiThreadRuntime"),
                           raw |-> "open", handler |-> "boxed",
                           loop |-> IF kind = "MultiThreadRuntime" THEN "running" ELSE "none",
                           quit |-> FALSE]
                     ELSE NoRuntime]
          /\ RUNTIME_RUNNING = pre
          /\ lastDone = IF pre THEN "Ok" ELSE "none"
          /\ initialized = pre
    /\ pc = [t \in Threads |->
               IF t = 1 /\ acall = "async_create_runtime" THEN "new_load" ELSE "idle"]
    /\ cur = [t \in Threads |-> 0]
    /\ attr = [t \in Threads |->
                 t = 1 /\ acall = "async_create_runtime" /\ kind = "MultiThreadRuntime"]
    /\ quit_requested = FALSE
    /\ InitWebViews
    /\ IdleMouse
    /\ output = "None"
    /\ runing = TRUE
    /\ waker = FALSE
    /\ notified = FALSE
    /\ ppc = "idle"
    /\ resolved = "unpolled"
    /\ upc = "held"
    /\ deposited = "None"
    /\ IdlePage
    /\ IdleApp
    /\ IdleLock
    /\ IdleTwin
    /\ IdleOrder
    /\ IdleDispatch
    /\ InitExecutes
    /\ IdleArgv
    /\ IdleAsync
    /\ IdleStrat
    /\ IdleSub
    /\ driven = FALSE
    /\ polls = 0

AsyncCreateRuntimeStep ==
    \/ NewLoad(1)
    \/ NewStore(1)
    \/ \E ptr \in {"null", "nonnull"} : NewCreate(1, ptr)
    \/ NewExecute(1)
    \/ AsyncRuntimeNewErr
    \/ AsyncRuntimeAwait
    \/ AsyncRuntimeDrop
    \/ DropClose(1)
    \/ DropFree(1)
    \/ DropClear(1)
    \/ AsyncRuntimeReturn

AsyncCreateWebViewStep ==
    \/ acall = "async_create_webview" /\ wv[1].state = "none" /\ WebViewNewCall(1, 1)
    \/ \E ptr \in {"null", "nonnull"} : WebViewNewReturn(1, ptr)
    \/ AsyncWebViewNewErr
    \/ AsyncWebViewAwait
    \/ AsyncWebViewDrop
    \/ delivering = "none" /\ CloseWebViewReturn(1)
    \/ WebViewDropFree(1)
    \/ AsyncWebViewReturn

AsyncCreateEngineStep ==
    \/ acall = "async_create_runtime" /\ LoopEnter(1)
    \/ acall = "async_create_runtime" /\ PollEnter(2)
    \/ PollReturn(2)
    \/ acall = "async_create_runtime" /\ ContextInitialized
    \/ ContextInitializedUnpark
    \/ acall = "async_create_runtime" /\ ContextInitializedReturn
    \/ \E state \in WebViewStates :
          acall = "async_create_webview" /\ wv[1].raw = "open" /\ OnStateChange(state)
    \/ OnStateChangeUnpark
    \/ acall = "async_create_webview" /\ OnStateChangeReturn
    \/ UnparkWake
    \/ UnparkFinishes

AsyncCreateNext ==
    \/ AsyncCreateRuntimeStep
    \/ AsyncCreateWebViewStep
    \/ AsyncCreateEngineStep

AsyncCreateSpec == AsyncCreateInit /\ [][AsyncCreateNext]_vars

\* C33: when Runtime::new / WebView::new has returned an error, the Park has
\* never been polled, the return of that same error is enabled at once, and
\* what the async constructor returns is that error.
C33_SynchronousFailure ==
    /\ (acall = "async_create_runtime"
          /\ RuntimeNewResult \in {"RuntimeAlreadyExists", "FailedToCreateRuntime"}) =>
            /\ resolved = "unpolled"
            /\ ppc \in {"idle", "dropped"}
            /\ created \in {"none", RuntimeNewResult}
            /\ created = "none" => ENABLED AsyncRuntimeNewErr
    /\ (acall = "async_create_webview" /\ wv[1].state = "failed") =>
            /\ resolved = "unpolled"
            /\ ppc \in {"idle", "dropped"}
            /\ created \in {"none", "FailedToCreateWebView"}
            /\ created = "none" => ENABLED AsyncWebViewNewErr

\* async_create_runtime has returned RuntimeAlreadyExists with a Runtime live,
\* the Park unpolled and no callback delivered to it.
C33_Witness ==
    /\ acall = "async_create_runtime"
    /\ created = "RuntimeAlreadyExists"
    /\ rt[1].state = "live"
    /\ resolved = "unpolled"
    /\ upc = "held"

\* C36: once async_create_webview has returned FailedToCreateWebView for a
\* WebView whose native creation succeeded, that WebView has been dropped (its
\* handle closed, its handler freed); once async_create_runtime has returned
\* FailedToCreateRuntime for a Runtime whose native creation succeeded, that
\* Runtime has been dropped and the running flag is clear.
C36_NoSurfaceSurvivesFailure ==
    /\ (acall = "async_create_webview" /\ created = "FailedToCreateWebView"
          /\ wv[1].state # "failed") =>
            /\ wv[1].state = "dropped"
            /\ wv[1].raw = "closed"
            /\ wv[1].handler = "freed"
    /\ (acall = "async_create_runtime" /\ created = "FailedToCreateRuntime"
          /\ rt[1].state # "none") =>
            /\ rt[1].state = "dropped"
            /\ rt[1].raw = "closed"
            /\ rt[1].handler = "freed"
            /\ ~RUNTIME_RUNNING

\* The first terminal state was LoadError: async_create_webview has returned
\* the error and the WebView created for it is closed and freed.
C36_Witness ==
    /\ acall = "async_create_webview"
    /\ firstTerminal = "LoadError"
    /\ resolved = "false"
    /\ created = "FailedToCreateWebView"
    /\ wv[1].state = "dropped"
    /\ wv[1].raw = "closed"
    /\ wv[1].handler = "freed"

\* Thread t enters Runtime::new, or leaves it from the flag check.
RejectedAttemptStep(t) ==
    \/ pc[t] = "idle" /\ pc'[t] = "new_load"
    \/ pc[t] = "new_load" /\ pc'[t] = "idle"

\* C34: the steps of a Runtime::new call that ends in RuntimeAlreadyExists
\* (its entry and its flag check) create, execute, close and free nothing,
\* spawn no thread, and leave every Runtime, every WebView and the running
\* flag as they are; the flag is set when the call is rejected.
C34_RejectedConstructionChangesNothing ==
    [][\A t \in Threads :
         RejectedAttemptStep(t) =>
            /\ rt' = rt
            /\ wv' = wv
            /\ executes' = executes
            /\ quit_requested' = quit_requested
            /\ RUNTIME_RUNNING' = RUNTIME_RUNNING
            /\ pc'[t] = "idle" => (RUNTIME_RUNNING /\ lastDone' = "RuntimeAlreadyExists")]_vars

\* A call has been rejected while another Runtime is live with a running loop
\* thread: that Runtime still has its open handle and its boxed handler.
C34_Witness ==
    /\ lastDone = "RuntimeAlreadyExists"
    /\ RUNTIME_RUNNING
    /\ \A t \in Threads : pc[t] = "idle"
    /\ rt[1].state = "live" /\ rt[1].raw = "open" /\ rt[1].handler = "boxed"
    /\ rt[1].loop = "running"
    /\ rt[2].state = "none"

\* ------------------------------------------------------------- transparency
\* A Runtime and a WebView created once on each path, with the same strategy
\* and kind: the engine fires callbacks.
TwinInit ==
    /\ InitRuntime
    /\ InitWebViews
    /\ IdleMouse
    /\ IdlePark
    /\ IdlePage
    /\ IdleApp
    /\ IdleLock
    /\ IdleAc
    /\ IdleOrder
    /\ IdleArgv
    /\ InitExecutes
    /\ IdleLoop
    /\ IdleSub
    /\ IdleStrat
    /\ IdleAsync
    /\ rtPath = "async"
    /\ wvPath = "async"
    /\ rtStrategy \in Strategies
    /\ wvKind \in WebViewKinds
    /\ rtHandler = RegisteredRuntimeHandler(rtPath, rtStrategy)
    /\ wvHandler = RegisteredWebViewHandler(wvPath, wvKind)
    /\ nativeCb = [name |-> "none", payload |-> "none"]
    /\ hostCb = "none"
    /\ hostPlain = <<>>
    /\ asyncTrace = <<>>
    /\ pendingRt = TRUE
    /\ pendingWv = TRUE

TwinNext ==
    \E obj \in {"runtime", "webview"}, k \in RuntimeCallbacks \cup Callbacks,
       arg \in WebViewStates \cup Payloads \cup {"none"} :
          CallbackOnBothPaths(obj, k, arg)

TwinSpec == TwinInit /\ [][TwinNext]_vars

\* The calls forwarded to the host handler in trace tr from index i on.
RECURSIVE ForwardedCalls(_, _)
ForwardedCalls(tr, i) ==
    IF i > Len(tr)
    THEN <<>>
    ELSE IF tr[i].name = "unpark"
         THEN ForwardedCalls(tr, i + 1)
         ELSE <<tr[i]>> \o ForwardedCalls(tr, i + 1)

\* C35: the host handler behind the async wrappers has received the same
\* calls, with the same arguments and in the same order, as the host handler
\* registered directly; every resolution of a pending creation is followed at
\* once by the forwarded call of the callback that caused it.
C35_AsyncWrappersTransparent ==
    /\ ForwardedCalls(asyncTrace, 1) = hostPlain
    /\ \A i \in 1..Len(asyncTrace) :
          asyncTrace[i].name = "unpark" =>
             /\ i < Len(asyncTrace)
             /\ asyncTrace[i + 1].name \in {"on_context_initialized", "on_state_change"}
             /\ asyncTrace[i + 1].arg = asyncTrace[i].arg

\* A frame, then Loaded, then a title change: the wrapper resolved the pending
\* creation before forwarding Loaded, and both handlers hold the same calls.
C35_Witness ==
    /\ wvKind = "WindowlessRenderWebView"
    /\ asyncTrace = <<[name |-> "on_frame", arg |-> "none"],
                      [name |-> "unpark", arg |-> "Loaded"],
                      [name |-> "on_state_change", arg |-> "Loaded"],
                      [name |-> "on_title_change", arg |-> "valid"]>>
    /\ hostPlain = ForwardedCalls(asyncTrace, 1)
    /\ ~pendingWv

\* ------------------------------------------------ concurrent WebView methods
\* A live windowless WebView shared by the host threads, which call its
\* methods concurrently.
SharedInit ==
    /\ rt = [r \in RuntimeIds |->
               IF r = 1
               THEN [state |-> "live", multi |-> FALSE, raw |-> "open",
                     handler |-> "boxed", loop |-> "none", quit |-> FALSE]
               ELSE NoRuntime]
    /\ RUNTIME_RUNNING = TRUE
    /\ pc = [t \in Threads |-> "idle"]
    /\ cur = [t \in Threads |-> 0]
    /\ attr = [t \in Threads |-> FALSE]
    /\ lastDone = "Ok"
    /\ quit_requested = FALSE
    /\ wv = [w \in WebViewIds |->
               IF w = 1
               THEN [state |-> "live", owner |-> 1, raw |-> "open", handler |-> "boxed",
                     cb |-> "none", raced |-> FALSE, usedAfterRuntimeClose |-> FALSE]
               ELSE NoWebView]
    /\ IdleMouse
    /\ IdlePark
    /\ IdlePage
    /\ IdleApp
    /\ IdleTwin
    /\ IdleAc
    /\ IdleOrder
    /\ IdleDispatch
    /\ InitExecutes
    /\ IdleArgv
    /\ IdleLoop
    /\ IdleSub
    /\ IdleStrat
    /\ IdleAsync
    /\ lpc = [t \in Threads |-> "idle"]
    /\ lop = [t \in Threads |-> [op |-> "none"]]
    /\ lev = [t \in Threads |-> <<0, 0>>]
    /\ eventLock = 0
    /\ rawLock = 0
    /\ calls = 0

\* The steps of a call once it has been made.
MethodStep(t) ==
    \/ LockEvent(t)
    \/ LockRaw(t)
    \/ NativeCall(t)
    \/ UnlockRaw(t)
    \/ UnlockEvent(t)

SharedNext ==
    \/ \E t \in Threads, a \in SharedMouseActions : MouseCall(t, a)
    \/ \E t \in Threads, op \in WebViewOps : MethodCall(t, op)
    \/ \E t \in Threads : MethodStep(t)

\* Scheduling: a thread inside a call keeps running whenever it can take its
\* next step (a thread blocked on a mutex can take none until it is free).
SharedFairness ==
    \A t \in Threads : WF_vars(MethodStep(t))

SharedSpec == SharedInit /\ [][SharedNext]_vars /\ SharedFairness

\* C37: every method call made on the shared WebView returns; mouse_event is
\* never acquired by a thread that holds raw; and a mouse call dispatches the
\* coordinates it wrote or read under the guard it still holds.
C37_NoDeadlockAmongMethods ==
    /\ \A t \in Threads : (lpc[t] # "idle") ~> (lpc[t] = "idle")
    /\ [][\A t \in Threads :
            /\ (eventLock' = t /\ eventLock # t) => rawLock # t
            /\ (lpc[t] = "native" /\ lpc'[t] = "unlock_raw" /\ lop[t].op = "mouse") =>
                  /\ eventLock = t
                  /\ rawLock = t
                  /\ <<dispatched'.x, dispatched'.y>> = lev[t]]_vars

\* Thread 1 is inside the native call of a mouse move holding both mutexes,
\* while thread 2 waits for mouse_event with its own mouse call.
C37_Witness ==
    /\ lpc[1] = "native" /\ lop[1].op = "mouse" /\ lop[1].a.kind = "Move"
    /\ eventLock = 1 /\ rawLock = 1
    /\ lpc[2] = "lock_event"

\* ------------------------------------------------------------------ Webview
\* A fresh process of the tokio-based crate: the host calls Webview::new and,
\* on the Webview it is returned, wait_exit.
AppInit ==
    /\ InitRuntime
    /\ InitWebViews
    /\ IdleMouse
    /\ IdlePark
    /\ IdlePage
    /\ IdleLock
    /\ IdleTwin
    /\ IdleAc
    /\ IdleOrder
    /\ IdleDispatch
    /\ InitExecutes
    /\ IdleArgv
    /\ IdleLoop
    /\ IdleSub
    /\ IdleStrat
    /\ IdleAsync
    /\ IdleApp

AppNext ==
    \/ WebviewNewCall
    \/ \E ptr \in {"null", "open"} : WrapperNew(ptr)
    \/ SpawnRun
    \/ RunEnter
    \/ WrapperCallback
    \/ \E code \in {0, 1} : RunReturn(code)
    \/ NotifyWaiters
    \/ ThreadExit
    \/ \E t \in Threads : RxResolve(t)
    \/ \E t \in Threads : WaitExitCall(t)
    \/ \E t \in Threads : WaitExitResolve(t)
    \/ \E t, u \in Threads : HostClone(t, u)
    \/ \E t \in Threads : HostRelease(t)

\* Scheduling: the task and the spawned thread keep running, futures that can
\* resolve are polled, and the engine inside its run call does not idle for
\* ever: it reports the context or returns. The host is not obliged to call.
AppFairness ==
    /\ WF_vars(\E ptr \in {"null", "open"} : WrapperNew(ptr))
    /\ WF_vars(SpawnRun)
    /\ WF_vars(RunEnter)
    /\ WF_vars(WrapperCallback \/ \E code \in {0, 1} : RunReturn(code))
    /\ WF_vars(NotifyWaiters)
    /\ WF_vars(ThreadExit)
    /\ WF_vars(\E t \in Threads : RxResolve(t))
    /\ \A t \in Threads : WF_vars(WaitExitResolve(t))

AppSpec == AppInit /\ [][AppNext]_vars /\ AppFairness

\* Webview::new resolves to Ok only once the callback has fired, and to
\* CreateAppFailed here only when create_webview returned null.
WebviewNewOutcomes ==
    /\ appResult = "Ok" => sender = "sent"
    /\ appResult = "CreateAppFailed" => app = "null"

\* C38: Webview::new resolves to Ok only once the callback has fired, and a
\* call of Webview::new is always followed by its resolution.
C38_WebviewNewResolves ==
    /\ [](appResult = "Ok" => sender = "sent")
    /\ (wnew # "idle") ~> (appResult # "none")

\* webview_run has returned zero on the spawned thread.
RunHasReturned == runState \in {"returned", "notified"} \/ notifyCalls > 0

\* A wait_exit that was being awaited before the spawned thread notified
\* completes once the run call has returned.
WaitExitCompletes_AwaitedFirst ==
    \A t \in Threads :
       (wexit[t] = "waiting" /\ snapshot[t] = 0 /\ RunHasReturned)
          ~> (wexit[t] = "done")

\* C39: a wait_exit call that is pending once the run call has returned is
\* followed by its completion, whichever of the call and the return came
\* first.
C39_WaitExitCompletes ==
    \A t \in Threads :
       (wexit[t] = "waiting" /\ RunHasReturned) ~> (wexit[t] = "done")

============================================================================
